---------------------------- MODULE Spec2Model ----------------------------
(***************************************************************************)
(* Model of goldboot-core/src/vnc.rs: the snapshot functions (hash, trim), *)
(* the full-frame capture (screenshot), the operator breakpoint            *)
(* (handle_breakpoint) and the bootstrap sequencer (boot_command),         *)
(* and of the build functions of the templates (goldboot_linux.rs,         *)
(* ubuntu_server.rs).                                                      *)
(*                                                                         *)
(* Six specifications:                                                     *)
(*   SpecTrim  applies trim to every bounded snapshot and rect;            *)
(*   SpecHash  applies hash, repeatedly, to two bounded snapshots;         *)
(*   SpecShot  runs one call of screenshot() and keeps its history;        *)
(*   Spec      runs boot_command on a script against a VNC server and an   *)
(*             operator console that may deliver anything at any time;     *)
(*   SpecLive  runs boot_command without an operator, the screen waits     *)
(*             unbounded, under the fairness of a running thread;          *)
(*   SpecBuild runs Template::build against collaborators that may fail.   *)
(***************************************************************************)
EXTENDS Integers, Sequences, FiniteSets, TLC

VARIABLES
    tS,          \* SpecTrim: the snapshot trim is called on (&self)
    tR,          \* SpecTrim: the rect argument
    tOut,        \* SpecTrim: the outcome of the call, NoCall before it
    script,      \* boot_command's argument: Vec<Vec<VncCmd>>
    debug,       \* VncConnection.debug
    record,      \* VncConnection.record
    width,       \* VncConnection.width
    height,      \* VncConnection.height
    pc,          \* position of the control thread inside boot_command
    si,          \* index of the current step (outer for loop)
    ii,          \* index of the current item inside the step (inner for loop)
    step_number, \* boot_command's local counter
    ci,          \* Type: index of the current character
    ki,          \* Type: index of the next key event of the current character
    words,       \* handle_breakpoint: the words of the line being handled
    ssPc,        \* position inside screenshot(), "idle" outside of it
    request_rect,\* screenshot's local request_rect
    shot,        \* the snapshot screenshot() returned to its caller
    order,       \* history: the items begun and ended, in order
    lines,       \* operator lines read so far that did not end a breakpoint
    log,         \* history of the current item since the operator's last line
                 \* (that line first), or since the item began
    nfiles,      \* history: the number of PNG files written so far
    recorded,    \* history: the names of the PNG files of the recording
    png,         \* history: the PNG file written last in the time log covers
    trace,       \* SpecShot: history of one call of screenshot(): the size at
                 \* the call, the events received and the requests sent
    hA,          \* SpecHash: a snapshot hash is called on
    hB,          \* SpecHash: another snapshot hash is called on
    hOut,        \* SpecHash: the values the calls of hash returned
    template,    \* SpecBuild: the template whose build runs
    payload,     \* SpecBuild: Resources::get("install.sh") is Some
    bpc,         \* SpecBuild: position of the control thread inside build
    calls        \* SpecBuild: history of the calls build made and their results

vars == <<tS, tR, tOut, script, debug, record, width, height, pc, si, ii,
          step_number, ci, ki, words, ssPc, request_rect, shot, order, lines,
          log, nfiles, recorded, png, trace, hA, hB, hOut, template, payload,
          bpc, calls>>

trimVars  == <<tS, tR, tOut>>
hashVars  == <<hA, hB, hOut>>
buildVars == <<template, payload, bpc, calls>>
runVars   == <<script, debug, record, width, height, pc, si, ii, step_number,
               ci, ki, words, ssPc, request_rect, shot, order, lines, log,
               nfiles, recorded, png, trace>>

(***************************************************************************)
(* Bounds of the model.                                                    *)
(***************************************************************************)
\* largest width and height of a snapshot handed to trim in SpecTrim
MaxDim == 2
\* largest top, left, width and height of a rect handed to trim in SpecTrim
MaxCoord == 2
\* events received and requests sent by the one call of SpecShot
MaxEvents == 4
\* largest exit status of the install script in SpecBuild
MaxExit == 2
\* calls of hash in a run of SpecHash
MaxHashCalls == 3
\* captures one screen wait may take before the model stops polling
MaxPolls == 2
\* operator lines per run that do not end a breakpoint (s..., unrecognized)
MaxLines == 2

\* values a pixel byte takes in the model
PixelVals == {0, 1}

(***************************************************************************)
(* Snapshots and rects.                                                    *)
(***************************************************************************)
\* struct VncScreenshot { data, width, height }
VncScreenshot(w, h, d) == [width |-> w, height |-> h, data |-> d]

\* vnc::Rect { left, top, width, height }
Rect(t, l, w, h) == [top |-> t, left |-> l, width |-> w, height |-> h]

\* every snapshot of the given size: one byte per pixel, row-major
Frames(w, h) == {VncScreenshot(w, h, d) : d \in [1..(w * h) -> PixelVals]}

NoShot == VncScreenshot(0, 0, <<>>)

\* the digest of a byte sequence: a function of the bytes only, different for
\* different byte sequences (SHA-1 taken as collision free)
RECURSIVE Digest(_)
Digest(d) ==
    IF d = <<>> THEN 1
    ELSE Digest(SubSeq(d, 1, Len(d) - 1)) * Cardinality(PixelVals) + d[Len(d)]

\* the hash with the width and height hashed before the pixels
HashWithShapeMutant(s) == Digest(<<s.width, s.height>> \o s.data)

\* VncScreenshot::hash
Hash(s) == Digest(s.data)

\* the index trim reads for output pixel (x, y)
TrimIndex(s, rect, x, y) == (y + rect.top) * s.width + (x + rect.left)

\* trim with the output width as the row stride of the source
TrimStrideMutant(s, rect) ==
    LET w == rect.width
        h == rect.height
        idx(x, y) == (y + rect.top) * w + (x + rect.left)
    IN IF \E y \in 0..(h - 1), x \in 0..(w - 1) : idx(x, y) >= Len(s.data)
       THEN [tag |-> "panic", shot |-> NoShot]
       ELSE [tag |-> "ok",
             shot |-> VncScreenshot(w, h,
                 [i \in 1..(w * h) |->
                     s.data[idx((i - 1) % w, (i - 1) \div w) + 1]])]

\* VncScreenshot::trim: Ok(snapshot), or a panic when an index is out of range
\* of self.data; no path of the code returns Err
Trim(s, rect) ==
    LET w == rect.width
        h == rect.height
    IN IF \E y \in 0..(h - 1), x \in 0..(w - 1) :
              TrimIndex(s, rect, x, y) >= Len(s.data)
       THEN [tag |-> "panic", shot |-> NoShot]
       ELSE [tag |-> "ok",
             shot |-> VncScreenshot(w, h,
                 [i \in 1..(w * h) |->
                     s.data[TrimIndex(s, rect, (i - 1) % w, (i - 1) \div w) + 1]])]

\* rect lies inside s (the containment of the data model)
Inside(s, rect) ==
    /\ rect.top + rect.height <= s.height
    /\ rect.left + rect.width <= s.width

(***************************************************************************)
(* Commands, key codes and scripts.                                        *)
(***************************************************************************)
NoRect == Rect(0, 0, 0, 0)

\* enum VncCmd; a text is the sequence of its characters' code points
Enter      == [op |-> "Enter", text |-> <<>>, secs |-> 0, hash |-> 0, rect |-> NoRect]
Spacebar   == [op |-> "Spacebar", text |-> <<>>, secs |-> 0, hash |-> 0, rect |-> NoRect]
Tab        == [op |-> "Tab", text |-> <<>>, secs |-> 0, hash |-> 0, rect |-> NoRect]
LeftSuper  == [op |-> "LeftSuper", text |-> <<>>, secs |-> 0, hash |-> 0, rect |-> NoRect]
Type(t)    == [op |-> "Type", text |-> t, secs |-> 0, hash |-> 0, rect |-> NoRect]
Wait(d)    == [op |-> "Wait", text |-> <<>>, secs |-> d, hash |-> 0, rect |-> NoRect]
WaitScreen(h) ==
    [op |-> "WaitScreen", text |-> <<>>, secs |-> 0, hash |-> h, rect |-> NoRect]
WaitScreenRect(h, top, left, w, ht) ==
    [op |-> "WaitScreenRect", text |-> <<>>, secs |-> 0, hash |-> h,
     rect |-> Rect(top, left, w, ht)]

\* key codes of boot_command
KeyShift     == 65505       \* 0xffe1
KeyBase      == 16777216    \* 0x01000000
KeyEnter     == 65293       \* 0xff0d
KeyTab       == 65289       \* 0xff09
KeySpacebar  == 32          \* 0x0020
KeyLeftSuper == 65515       \* 0xffeb

\* the pauses of boot_command, in milliseconds
TypePauseMs   == 200
SettleMs      == 1000
RectPollMs    == 1000
JitterLowMs   == 500
JitterHighMs  == 1000
\* gen_range(500..1000): every duration from 500 to 999
JitterMs      == JitterLowMs..(JitterHighMs - 1)

\* char::is_uppercase on the code points below 256
IsUppercase(ch) == ch \in (65..90) \cup (192..214) \cup (216..222)

\* the characters of the inner match of the Type arm:
\* '~' '!' '#' '$' '%' '^' '&' '*' '(' ')' '_' '+'
ShiftPunct == {126, 33, 35, 36, 37, 94, 38, 42, 40, 41, 95, 43}

KeyEv(down, key) == [down |-> down, key |-> key]

\* the Type arm with the release of shift forgotten
KeyEventsNoShiftUpMutant(ch) ==
    IF IsUppercase(ch) \/ ch \in ShiftPunct
    THEN <<KeyEv(TRUE, KeyShift), KeyEv(TRUE, KeyBase + ch),
           KeyEv(FALSE, KeyBase + ch)>>
    ELSE <<KeyEv(TRUE, KeyBase + ch), KeyEv(FALSE, KeyBase + ch)>>

\* the send_key_event calls the Type arm makes for one character, in order
KeyEventsFor(ch) ==
    IF IsUppercase(ch)
    THEN <<KeyEv(TRUE, KeyShift), KeyEv(TRUE, KeyBase + ch),
           KeyEv(FALSE, KeyBase + ch), KeyEv(FALSE, KeyShift)>>
    ELSE IF ch \in ShiftPunct
         THEN <<KeyEv(TRUE, KeyShift), KeyEv(TRUE, KeyBase + ch),
                KeyEv(FALSE, KeyBase + ch), KeyEv(FALSE, KeyShift)>>
         ELSE <<KeyEv(TRUE, KeyBase + ch), KeyEv(FALSE, KeyBase + ch)>>

\* the key code of the Enter, Tab, Spacebar and LeftSuper arms
SpecialKey(op) ==
    CASE op = "Enter" -> KeyEnter
      [] op = "Tab" -> KeyTab
      [] op = "Spacebar" -> KeySpacebar
      [] op = "LeftSuper" -> KeyLeftSuper

SpecialOps == {"Enter", "Tab", "Spacebar", "LeftSuper"}

\* the two send_key_event calls of a special key arm
SpecialEvents(op) == <<KeyEv(TRUE, SpecialKey(op)), KeyEv(FALSE, SpecialKey(op))>>

(***************************************************************************)
(* Operator lines: a line is the sequence of its whitespace-separated      *)
(* words (split_whitespace), a word the sequence of its characters.        *)
(***************************************************************************)
Digits == <<"0", "1", "2", "3", "4", "5", "6", "7", "8", "9">>
IsDigit(c) == \E i \in 1..10 : Digits[i] = c
DigitVal(c) == (CHOOSE i \in 1..10 : Digits[i] = c) - 1

U16Max == 65535

ParseErr == -1

\* the value of a digit string, ParseErr once it exceeds u16
RECURSIVE DigitsValue(_)
DigitsValue(w) ==
    IF w = <<>> THEN 0
    ELSE LET hd == DigitsValue(SubSeq(w, 1, Len(w) - 1))
         IN IF hd = ParseErr THEN ParseErr
            ELSE IF hd * 10 + DigitVal(w[Len(w)]) > U16Max THEN ParseErr
                 ELSE hd * 10 + DigitVal(w[Len(w)])

\* str::parse::<u16>: an optional '+', then one or more decimal digits, the
\* value at most 65535; ParseErr for anything else
ParseU16(w) ==
    LET ds == IF w # <<>> /\ w[1] = "+" THEN Tail(w) ELSE w
    IN IF ds = <<>> \/ \E i \in 1..Len(ds) : ~IsDigit(ds[i])
       THEN ParseErr
       ELSE DigitsValue(ds)

Word_c == <<"c">>
Word_s == <<"s">>
Word_q == <<"q">>

\* the lines the operator types in the model
OperatorLines ==
    { <<Word_c>>,
      <<Word_q>>,
      <<Word_s>>,
      <<Word_s, <<"0">>, <<"1">>, <<"1">>, <<"1">> >>,
      <<Word_s, <<"0">>, <<"1">>, <<"2">>, <<"1">> >>,
      <<Word_s, <<"0">>, <<"0">>, <<"0">>, <<"1">> >>,
      <<Word_s, <<"0">>, <<"0">>, <<"x">>, <<"1">> >>,
      <<Word_s, <<"0">>, <<"0">>, <<"1">>, <<"6", "5", "5", "3", "6">> >>,
      <<Word_s, <<"0">>, <<"7", "0", "0", "0", "0">>, <<"1">> >>,
      << >>,
      << <<"c", "c">> >> }

FirstWord(line) == IF line = <<>> THEN <<>> ELSE line[1]

(***************************************************************************)
(* The VNC server side: sizes, frames and events it may deliver.           *)
(***************************************************************************)
ScreenWidths  == {1, 2}
ScreenHeights == {2}

\* the pixel contents the server shows
ServerData ==
    { <<0, 1>>, <<1, 0>>,
      <<0, 1, 1, 0>>, <<0, 0, 0, 0>> }

\* the pixel blocks of a w x h rectangle the server may send
ServerFrames(w, h) ==
    {VncScreenshot(w, h, d) : d \in {e \in ServerData : Len(e) = w * h}}

\* rectangles of the pixel blocks the server may send
EventRects ==
    {[top |-> t, left |-> l, width |-> w, height |-> h] :
        t \in {0, 1}, l \in {0}, w \in ScreenWidths, h \in ScreenHeights}

\* the scripts boot_command is run on
H_full == Hash(VncScreenshot(2, 2, <<0, 1, 1, 0>>))
H_part == Hash(VncScreenshot(1, 1, <<1>>))
H_col  == Hash(VncScreenshot(1, 2, <<0, 1>>))
\* a target no snapshot hashes to
H_none == Digest(<<>>) - 1

Text_Ab1bang == <<65, 98, 49, 33>>
Text_at      == <<64, 201>>

\* the scripts of the runs without and with an operator
Scripts ==
    { << >>,
      << <<Wait(2)>>, <<Type(Text_Ab1bang), Enter>> >>,
      << <<WaitScreen(H_full)>>, <<Tab, Wait(1)>> >>,
      << <<Wait(2), Type(Text_at)>>, <<WaitScreenRect(H_part, 0, 1, 1, 1)>> >>,
      << <<Spacebar>>, << >>, <<LeftSuper, WaitScreen(H_none)>> >>,
      << <<WaitScreenRect(H_part, 1, 1, 1, 1), Enter>> >>,
      << <<WaitScreenRect(H_col, 1, 0, 1, 1)>> >> }

DebugScripts ==
    { << <<Wait(2), Type(<<65>>)>>, <<Enter>> >>,
      << <<WaitScreen(H_full)>>, <<Tab, Wait(1)>> >>,
      << <<Spacebar, WaitScreenRect(H_part, 0, 1, 1, 1)>> >> }

(***************************************************************************)
(* History.                                                                *)
(***************************************************************************)
\* one entry of log: k is "prompt", "key", "sleep" or "capture"; n the value
\* of step_number; x, y its numbers (a prompt: the files written before it; a
\* key: 1 for down and the key code; a sleep: the milliseconds; a capture:
\* its hash); w the operator's line; s the snapshot captured
Ev(k, x, y, w, s) == [k |-> k, n |-> step_number, x |-> x, y |-> y, w |-> w, s |-> s]

EvPrompt(l)   == Ev("prompt", nfiles, 0, l, NoShot)
EvKey(e)      == Ev("key", IF e.down THEN 1 ELSE 0, e.key, <<>>, NoShot)
EvSleep(ms)   == Ev("sleep", ms, 0, <<>>, NoShot)
\* a sleep of the jitter: the history keeps ms rounded down to the spans of
\* the jitter as x, and in y how far above x the duration may lie
EvJitter(ms)  ==
    Ev("sleep", ms - ((ms - JitterLowMs) % (JitterHighMs - JitterLowMs)),
       JitterHighMs - JitterLowMs - 1, <<>>, NoShot)
EvCapture(sn) == Ev("capture", Hash(sn), 0, <<>>, sn)

\* one entry of order: the handling of a command begins or ends
Mark(k, cmd) == [k |-> k, cmd |-> cmd]

\* the name of a PNG file below screenshots/: "hash" or "step", and the number
\* the name is made of
PngName(kind, id) == [kind |-> kind, id |-> id]

\* a PNG file: its name and the image written
PngFile(kind, id, sn) ==
    [name |-> PngName(kind, id), width |-> sn.width, height |-> sn.height,
     data |-> sn.data]

NoFile == PngFile("none", 0, NoShot)

\* one way write_png ends: res is what the caller gets and left what the file
\* holds afterwards
WriteOutcome(res, left) == [res |-> res, left |-> left]

\* what the disk may keep of a file whose bytes go through the BufWriter and,
\* the last of them, through its drop, which ignores a failed flush: all of
\* them ("image"), those of the header ("header"), none ("empty")
Kept == {"image", "header", "empty"}

\* the ways write_png ends for snapshot sn. "io_err": create_dir_all or
\* File::create failed and there is no file. "panic_header": the file was
\* created and write_header, which refuses a width or height of zero, was
\* unwrapped. "panic_image": write_image_data, which refuses data that is not
\* width * height bytes and fails when the disk does, was unwrapped.
\* "late_err": canonicalize failed. "ok". In the last two the image was
\* handed to the BufWriter; what the file holds is what the disk kept.
WriteOutcomes(sn) ==
    {WriteOutcome("io_err", "none")} \cup
    (IF sn.width = 0 \/ sn.height = 0
     THEN {WriteOutcome("panic_header", "empty")}
     ELSE {WriteOutcome("panic_image", l) : l \in Kept \ {"image"}} \cup
          (IF Len(sn.data) # sn.width * sn.height THEN {}
           ELSE {WriteOutcome(r, l) : r \in {"ok", "late_err"}, l \in Kept}))

\* the file exists once File::create returned
Written(o) == o.left # "none"

\* the file write_png leaves for snapshot sn when it ends as o: the whole
\* image, the header and no image, or an empty file
PngLeft(kind, id, sn, o) ==
    CASE o.left = "empty" ->
            [name |-> PngName(kind, id), width |-> 0, height |-> 0,
             data |-> <<>>]
      [] o.left = "header" ->
            [name |-> PngName(kind, id), width |-> sn.width,
             height |-> sn.height, data |-> <<>>]
      [] OTHER -> PngFile(kind, id, sn)

\* where boot_command is after a write_png called at a place that continues
\* at pc value next
PcAfterWrite(o, next) ==
    CASE o.res = "ok" -> next
      [] o.res \in {"io_err", "late_err"} -> "err"
      [] o.res \in {"panic_header", "panic_image"} -> "panic"

(***************************************************************************)
(* Spec: a run of boot_command.                                            *)
(***************************************************************************)
\* groups of variables, for the frames of the actions
fixedVars == <<tS, tR, tOut, script, record, hashVars, buildVars>>
cfgVars  == <<fixedVars, trace>>
sizeVars == <<width, height>>
posVars  == <<si, ii, step_number>>
keyVars  == <<ci, ki>>
histVars == <<order, log, nfiles, recorded, png>>

\* no call of hash
HashIdle ==
    /\ hA = NoShot
    /\ hB = NoShot
    /\ hOut = <<>>

\* no build
BuildIdle ==
    /\ template = "none"
    /\ payload = FALSE
    /\ bpc = "idle"
    /\ calls = <<>>

Init ==
    /\ tS = NoShot
    /\ tR = NoRect
    /\ tOut = [tag |-> "none", shot |-> NoShot]
    /\ debug \in BOOLEAN
    /\ script \in (IF debug THEN DebugScripts ELSE Scripts)
    /\ record \in BOOLEAN
    /\ width \in ScreenWidths
    /\ height \in ScreenHeights
    /\ pc = "loop"
    /\ si = 1
    /\ ii = 0
    /\ step_number = 0
    /\ ci = 1
    /\ ki = 1
    /\ words = <<>>
    /\ ssPc = "idle"
    /\ request_rect = NoRect
    /\ shot = NoShot
    /\ order = <<>>
    /\ lines = 0
    /\ log = <<>>
    /\ nfiles = 0
    /\ recorded = <<>>
    /\ png = NoFile
    /\ trace = <<>>
    /\ HashIdle
    /\ BuildIdle

\* the inner for loop walking a step from its last item to its first
ItemAtReversedMutant(s, i) == script[s][Len(script[s]) + 1 - i]

\* `for step in command { for item in step {`: the i-th item the inner loop
\* takes from the s-th step
ItemAt(s, i) == script[s][i]

\* the command being handled
Cur == ItemAt(si, ii)

\* the captures in a log
Captures(l) == SelectSeq(l, LAMBDA e : e.k = "capture")

\* ---------------------------------------------------------------- screenshot
\* what screenshot() leaves alone besides the size, its own variables and
\* the history of the call
ssFrame == <<fixedVars, debug, pc, posVars, keyVars, words, lines, histVars>>

\* the events besides Resize, PutPixels and EndOfFrame the server sends
OtherEvents == {"Disconnected", "Bell"}

\* the events the first loop drops: all but Resize
DrainDropped == {"PutPixels", "EndOfFrame"} \cup OtherEvents

\* first loop: a pending Resize(w, h) sets the size
DrainResize(w, h) ==
    /\ ssPc = "drain"
    /\ width' = w
    /\ height' = h
    /\ UNCHANGED <<ssPc, request_rect, shot>>
    /\ UNCHANGED ssFrame

\* first loop: any other pending event is dropped (the `_ => {}` arm)
DrainDiscard(ev) ==
    /\ ssPc = "drain"
    /\ ev \in DrainDropped
    /\ UNCHANGED <<width, height, ssPc, request_rect, shot>>
    /\ UNCHANGED ssFrame

\* first loop: the pending events are exhausted
DrainEnd ==
    /\ ssPc = "drain"
    /\ ssPc' = "request"
    /\ UNCHANGED <<width, height, request_rect, shot>>
    /\ UNCHANGED ssFrame

\* the rect of the request, given the size the session holds
RequestRect(w, h) == Rect(0, 0, w, h)

\* request_rect is built from the current size and request_update is called;
\* its failure is unwrapped
Request(sent) ==
    /\ ssPc = "request"
    /\ request_rect' = RequestRect(width, height)
    /\ IF sent
       THEN /\ ssPc' = "poll"
            /\ pc' = pc
       ELSE /\ ssPc' = "idle"
            /\ pc' = "panic"
    /\ UNCHANGED <<width, height, shot>>
    /\ UNCHANGED <<fixedVars, debug, posVars, keyVars, words, lines, histVars>>

\* Event::Resize(w, h) in the second loop: the size is set, request_rect is
\* the local of this round of the outer loop and stays
PollResize(w, h) ==
    /\ ssPc = "poll"
    /\ width' = w
    /\ height' = h
    /\ UNCHANGED <<ssPc, request_rect, shot>>
    /\ UNCHANGED ssFrame

\* the PutPixels test comparing only the size of the block
BlockAcceptedSizeOnlyMutant(r) ==
    r.width = request_rect.width /\ r.height = request_rect.height

\* `if vnc_rect == request_rect`
BlockAccepted(r) == r = request_rect

\* Event::PutPixels(r, f) in the second loop: returned when r is request_rect
PollPutPixels(r, f) ==
    /\ ssPc = "poll"
    /\ IF BlockAccepted(r)
       THEN /\ shot' = VncScreenshot(r.width, r.height, f.data)
            /\ ssPc' = "ok"
       ELSE UNCHANGED <<shot, ssPc>>
    /\ UNCHANGED <<width, height, request_rect>>
    /\ UNCHANGED ssFrame

\* Event::EndOfFrame in the second loop
PollEndOfFrame ==
    /\ ssPc = "poll"
    /\ UNCHANGED <<width, height, ssPc, request_rect, shot>>
    /\ UNCHANGED ssFrame

\* any other event in the second loop: bail!
PollOther(ev) ==
    /\ ssPc = "poll"
    /\ ev \in OtherEvents
    /\ ssPc' = "err"
    /\ UNCHANGED <<width, height, request_rect, shot>>
    /\ UNCHANGED ssFrame

\* the second loop's events are exhausted: the outer loop starts over
PollEmpty ==
    /\ ssPc = "poll"
    /\ ssPc' = "request"
    /\ UNCHANGED <<width, height, request_rect, shot>>
    /\ UNCHANGED ssFrame

\* the steps of screenshot() inside a run of boot_command
SsDrainResize ==
    /\ \E w \in ScreenWidths, h \in ScreenHeights : DrainResize(w, h)
    /\ UNCHANGED trace

SsDrainDiscard ==
    /\ \E ev \in DrainDropped : DrainDiscard(ev)
    /\ UNCHANGED trace

SsDrainEnd ==
    /\ DrainEnd
    /\ UNCHANGED trace

SsRequest ==
    /\ \E sent \in BOOLEAN : Request(sent)
    /\ UNCHANGED trace

SsPollResize ==
    /\ \E w \in ScreenWidths, h \in ScreenHeights : PollResize(w, h)
    /\ UNCHANGED trace

SsPollPutPixels ==
    /\ \E r \in EventRects :
       \E f \in ServerFrames(r.width, r.height) : PollPutPixels(r, f)
    /\ UNCHANGED trace

SsPollEndOfFrame ==
    /\ PollEndOfFrame
    /\ UNCHANGED trace

SsPollOther ==
    /\ \E ev \in OtherEvents : PollOther(ev)
    /\ UNCHANGED trace

SsPollEmpty ==
    /\ PollEmpty
    /\ UNCHANGED trace

screenshot ==
    \/ SsDrainResize
    \/ SsDrainDiscard
    \/ SsDrainEnd
    \/ SsRequest
    \/ SsPollResize
    \/ SsPollPutPixels
    \/ SsPollEndOfFrame
    \/ SsPollOther
    \/ SsPollEmpty

\* the variables of screenshot() and the size
ssVars == <<width, height, ssPc, request_rect, shot>>

\* ------------------------------------------------------------- boot_command
\* the outer for loop takes the next step
NextStep ==
    /\ pc = "loop"
    /\ si <= Len(script)
    /\ ii = Len(script[si])
    /\ si' = si + 1
    /\ ii' = 0
    /\ UNCHANGED <<cfgVars, debug, pc, step_number, keyVars, words, lines,
                   histVars, ssVars>>

\* the breakpoint test without its exception for Wait
BreakAtWaitTooMutant(cmd) == debug

\* `if self.debug { match &item { VncCmd::Wait(_) => {} _ => ... } }`: the
\* command is preceded by a breakpoint
BreakAt(cmd) == debug /\ cmd.op # "Wait"

\* the counter incremented in the outer loop, once for each step
StepNumberPerStepMutant(n, i) == IF i = 1 THEN n + 1 ELSE n

\* `step_number += 1` at the head of the inner loop's body: the counter for
\* the i-th item of a step, n being the counter before it
StepNumberAt(n, i) == n + 1

\* the inner for loop takes the next item: step_number += 1, then the
\* breakpoint test
NextItem ==
    /\ pc = "loop"
    /\ si <= Len(script)
    /\ ii < Len(script[si])
    /\ ii' = ii + 1
    /\ step_number' = StepNumberAt(step_number, ii + 1)
    /\ order' = Append(order, Mark("begin", ItemAt(si, ii + 1)))
    /\ log' = <<>>
    /\ png' = NoFile
    /\ pc' = IF BreakAt(ItemAt(si, ii + 1)) THEN "bp" ELSE "exec"
    /\ ci' = 1
    /\ ki' = 1
    /\ UNCHANGED <<cfgVars, debug, si, words, lines, nfiles, recorded, ssVars>>

\* both loops are over: Ok(())
Finish ==
    /\ pc = "loop"
    /\ si > Len(script)
    /\ pc' = "done"
    /\ UNCHANGED <<cfgVars, debug, posVars, keyVars, words, lines, histVars,
                   ssVars>>

\* ---------------------------------------------------------- handle_breakpoint
\* read_line fails and is unwrapped
BpReadFail ==
    /\ pc = "bp"
    /\ pc' = "panic"
    /\ UNCHANGED <<cfgVars, debug, posVars, keyVars, words, lines, histVars,
                   ssVars>>

\* the `c` arm switching debug off like the `q` arm
DebugAfterContinueMutant == FALSE

\* Some("c") leaves self.debug alone
DebugAfterContinue == debug

\* Some("c") => break Ok(())
BpContinue ==
    /\ pc = "bp"
    /\ \E line \in OperatorLines :
          /\ FirstWord(line) = Word_c
          /\ log' = <<EvPrompt(line)>>
    /\ png' = NoFile
    /\ debug' = DebugAfterContinue
    /\ pc' = "exec"
    /\ UNCHANGED <<cfgVars, posVars, keyVars, words, lines, order, nfiles,
                   recorded, ssVars>>

\* the `q` arm leaving debug as it is
DebugAfterQuitMutant == debug

\* Some("q") => self.debug = false
DebugAfterQuit == FALSE

\* Some("q") => self.debug = false; break Ok(())
BpQuit ==
    /\ pc = "bp"
    /\ \E line \in OperatorLines :
          /\ FirstWord(line) = Word_q
          /\ log' = <<EvPrompt(line)>>
    /\ png' = NoFile
    /\ debug' = DebugAfterQuit
    /\ pc' = "exec"
    /\ UNCHANGED <<cfgVars, posVars, keyVars, words, lines, order, nfiles,
                   recorded, ssVars>>

\* Some("s"): both arms of the inner match call self.screenshot() first
BpScreenshot ==
    /\ pc = "bp"
    /\ lines < MaxLines
    /\ \E line \in OperatorLines :
          /\ FirstWord(line) = Word_s
          /\ log' = <<EvPrompt(line)>>
          /\ words' = Tail(line)
    /\ png' = NoFile
    /\ lines' = lines + 1
    /\ pc' = "bp_shot"
    /\ ssPc' = "drain"
    /\ UNCHANGED <<cfgVars, debug, posVars, keyVars, order, nfiles, recorded,
                   width, height, request_rect, shot>>

\* the four words after `s` all parse
BpRectValid(ws) == \A i \in 1..4 : ParseU16(ws[i]) # ParseErr

\* the rect of `s top left width height`
BpRect(ws) ==
    Rect(ParseU16(ws[1]), ParseU16(ws[2]), ParseU16(ws[3]), ParseU16(ws[4]))

\* the snapshot the `s` arm hashes and writes, given the words after `s` and
\* the capture: the trimmed region when there are four words, else the capture
BpSnapshot(ws, sn) ==
    IF Len(ws) >= 4 THEN Trim(sn, BpRect(ws)) ELSE [tag |-> "ok", shot |-> sn]

\* the `s` arm naming the file by the hash of the whole capture
BpFileHashFullFrameMutant(capture, written) == Hash(capture)

\* `let hash = screenshot.hash()`: the name of the file of the `s` arm, given
\* the capture and the snapshot that is written
BpFileHash(capture, written) == Hash(written)

\* a word that does not parse sending the operator back to the prompt
AfterParseErrorPromptMutant == "bp"

\* `top.parse::<u16>()?` and the three after it: where boot_command is after
\* a word that does not parse, `?` here and at the call of handle_breakpoint
\* returning the error
AfterParseError == "err"

\* the capture of the `s` arm failed: `?` returns the error
BpShotErr ==
    /\ pc = "bp_shot"
    /\ ssPc = "err"
    /\ ssPc' = "idle"
    /\ pc' = "err"
    /\ UNCHANGED <<cfgVars, debug, posVars, keyVars, words, lines, histVars,
                   width, height, request_rect, shot>>

\* the capture of the `s` arm returned: parse the four words if there are
\* four, trim, hash, write_png, and prompt again
BpShotOk ==
    /\ pc = "bp_shot"
    /\ ssPc = "ok"
    /\ ssPc' = "idle"
    /\ shot' = NoShot
    /\ log' = Append(log, EvCapture(shot))
    /\ IF Len(words) >= 4 /\ ~BpRectValid(words)
       THEN /\ pc' = AfterParseError
            /\ UNCHANGED <<nfiles, png>>
       ELSE LET t == BpSnapshot(words, shot)
            IN IF t.tag = "panic"
               THEN /\ pc' = "panic"
                    /\ UNCHANGED <<nfiles, png>>
               ELSE \E o \in WriteOutcomes(t.shot) :
                       LET f == PngLeft("hash", BpFileHash(shot, t.shot), t.shot, o)
                       IN /\ nfiles' = IF Written(o) THEN nfiles + 1 ELSE nfiles
                          /\ png' = IF Written(o) THEN f ELSE png
                          /\ pc' = PcAfterWrite(o, "bp")
    /\ UNCHANGED <<cfgVars, debug, posVars, keyVars, words, lines, order,
                   recorded, width, height, request_rect>>

\* the last arm of the match leaving the loop like the `c` arm
AfterOtherLineBreakMutant == "exec"

\* `_ => continue`: where handle_breakpoint goes on after a line of the last
\* arm, the head of its loop
AfterOtherLine == "bp"

\* `_ => continue`: any other line, the empty one included
BpIgnore ==
    /\ pc = "bp"
    /\ lines < MaxLines
    /\ \E line \in OperatorLines :
          /\ FirstWord(line) \notin {Word_c, Word_s, Word_q}
          /\ log' = <<EvPrompt(line)>>
    /\ png' = NoFile
    /\ lines' = lines + 1
    /\ pc' = AfterOtherLine
    /\ UNCHANGED <<cfgVars, debug, posVars, keyVars, words, order, nfiles,
                   recorded, ssVars>>

handle_breakpoint ==
    \/ BpReadFail
    \/ BpContinue
    \/ BpQuit
    \/ BpScreenshot
    \/ BpShotErr
    \/ BpShotOk
    \/ BpIgnore

\* ------------------------------------------------- boot_command: the match
\* what a step of the match leaves alone besides pc, ci, ki and log
execFrame == <<cfgVars, debug, posVars, words, lines, order, nfiles, recorded,
               png>>

\* Type: the next send_key_event of the current character; `?` returns its
\* error
TypeKey ==
    /\ pc = "exec"
    /\ Cur.op = "Type"
    /\ ci <= Len(Cur.text)
    /\ ki <= Len(KeyEventsFor(Cur.text[ci]))
    /\ \E sent \in BOOLEAN :
          IF sent
          THEN /\ log' = Append(log, EvKey(KeyEventsFor(Cur.text[ci])[ki]))
               /\ ki' = ki + 1
               /\ pc' = pc
          ELSE /\ pc' = "err"
               /\ UNCHANGED <<log, ki>>
    /\ UNCHANGED <<ci, execFrame, ssVars>>

\* Type: the sleep after the events of a character
TypeSleep ==
    /\ pc = "exec"
    /\ Cur.op = "Type"
    /\ ci <= Len(Cur.text)
    /\ ki > Len(KeyEventsFor(Cur.text[ci]))
    /\ log' = Append(log, EvSleep(TypePauseMs))
    /\ ci' = ci + 1
    /\ ki' = 1
    /\ UNCHANGED <<pc, execFrame, ssVars>>

\* Type: the characters are exhausted
TypeDone ==
    /\ pc = "exec"
    /\ Cur.op = "Type"
    /\ ci > Len(Cur.text)
    /\ pc' = "end"
    /\ UNCHANGED <<keyVars, log, execFrame, ssVars>>

\* Wait(duration)
WaitSleep ==
    /\ pc = "exec"
    /\ Cur.op = "Wait"
    /\ log' = Append(log, EvSleep(Cur.secs * 1000))
    /\ pc' = "end"
    /\ UNCHANGED <<keyVars, execFrame, ssVars>>

\* Enter, Tab, Spacebar, LeftSuper: the next of the two send_key_event calls
SpecialSend ==
    /\ pc = "exec"
    /\ Cur.op \in SpecialOps
    /\ ki <= 2
    /\ \E sent \in BOOLEAN :
          IF sent
          THEN /\ log' = Append(log, EvKey(SpecialEvents(Cur.op)[ki]))
               /\ ki' = ki + 1
               /\ pc' = pc
          ELSE /\ pc' = "err"
               /\ UNCHANGED <<log, ki>>
    /\ UNCHANGED <<ci, execFrame, ssVars>>

\* Enter, Tab, Spacebar, LeftSuper: both events are sent
SpecialDone ==
    /\ pc = "exec"
    /\ Cur.op \in SpecialOps
    /\ ki > 2
    /\ pc' = "end"
    /\ UNCHANGED <<keyVars, log, execFrame, ssVars>>

\* the screen waits giving up after their first capture
LoopAgainOnceMutant == Captures(log) = <<>>

\* `loop {` of WaitScreen and of WaitScreenRect: the loops have no condition,
\* a round that did not break is followed by another
LoopAgain == TRUE

\* WaitScreen: the jittered sleep (gen_range(500..1000)), then screenshot();
\* past is the part of the history the round is added to
WsRound(past) ==
    /\ pc = "exec"
    /\ Cur.op = "WaitScreen"
    /\ LoopAgain
    /\ \E ms \in JitterMs :
          log' = Append(past, EvJitter(ms))
    /\ pc' = "ws_shot"
    /\ ssPc' = "drain"
    /\ UNCHANGED <<keyVars, execFrame, width, height, request_rect, shot>>

\* a round of WaitScreen in a run whose history keeps every round
WsSleep ==
    /\ Len(Captures(log)) < MaxPolls
    /\ WsRound(log)

\* the WaitScreen loop leaving at its first capture
WsMatchAlwaysMutant(sn, hash) == TRUE

\* the WaitScreen loop leaving when the hash differs from the target
WsMatchInvertedMutant(sn, hash) == Hash(sn) # hash

\* the test of the WaitScreen loop
WsMatch(sn, hash) == Hash(sn) = hash

\* WaitScreen: screenshot() returned; `?`, then the test
WsShot ==
    /\ pc = "ws_shot"
    /\ ssPc \in {"ok", "err"}
    /\ ssPc' = "idle"
    /\ shot' = NoShot
    /\ IF ssPc = "err"
       THEN /\ pc' = "err"
            /\ log' = log
       ELSE /\ log' = Append(log, EvCapture(shot))
            /\ pc' = IF WsMatch(shot, Cur.hash) THEN "ws_settle" ELSE "exec"
    /\ UNCHANGED <<keyVars, execFrame, width, height, request_rect>>

\* WaitScreen: "Don't continue immediately", then break
WsSettle ==
    /\ pc = "ws_settle"
    /\ log' = Append(log, EvSleep(SettleMs))
    /\ pc' = "end"
    /\ UNCHANGED <<keyVars, execFrame, ssVars>>

\* WaitScreenRect: the fixed sleep, then screenshot(); past is the part of
\* the history the round is added to
WsrRound(past) ==
    /\ pc = "exec"
    /\ Cur.op = "WaitScreenRect"
    /\ LoopAgain
    /\ log' = Append(past, EvSleep(RectPollMs))
    /\ pc' = "wsr_shot"
    /\ ssPc' = "drain"
    /\ UNCHANGED <<keyVars, execFrame, width, height, request_rect, shot>>

\* a round of WaitScreenRect in a run whose history keeps every round
WsrSleep ==
    /\ Len(Captures(log)) < MaxPolls
    /\ WsrRound(log)

\* the WaitScreenRect loop testing the hash of the whole capture
WsrMatchFullFrameMutant(capture, trimmed, hash) == Hash(capture) = hash

\* the test of the WaitScreenRect loop, given the capture and what trim
\* returned for it
WsrMatch(capture, trimmed, hash) == Hash(trimmed) = hash

\* WaitScreenRect: screenshot() returned; `?`, trim, `?`, then the test
WsrShot ==
    /\ pc = "wsr_shot"
    /\ ssPc \in {"ok", "err"}
    /\ ssPc' = "idle"
    /\ shot' = NoShot
    /\ IF ssPc = "err"
       THEN /\ pc' = "err"
            /\ log' = log
       ELSE /\ log' = Append(log, EvCapture(shot))
            /\ LET t == Trim(shot, Cur.rect)
               IN pc' = IF t.tag = "panic" THEN "panic"
                        ELSE IF WsrMatch(shot, t.shot, Cur.hash) THEN "wsr_settle"
                        ELSE "exec"
    /\ UNCHANGED <<keyVars, execFrame, width, height, request_rect>>

\* WaitScreenRect: "Don't continue immediately", then break
WsrSettle ==
    /\ pc = "wsr_settle"
    /\ log' = Append(log, EvSleep(SettleMs))
    /\ pc' = "end"
    /\ UNCHANGED <<keyVars, execFrame, ssVars>>

\* the recording switched on whatever the flag
ShouldRecordAlwaysMutant == TRUE

\* `if self.record`
ShouldRecord == record

\* after the match: `if self.record`, the capture of the step
EndItem ==
    /\ pc = "end"
    /\ order' = Append(order, Mark("end", Cur))
    /\ IF ShouldRecord
       THEN /\ pc' = "rec_shot"
            /\ ssPc' = "drain"
       ELSE /\ pc' = "loop"
            /\ ssPc' = ssPc
    /\ UNCHANGED <<cfgVars, debug, posVars, keyVars, words, lines, log, nfiles,
                   recorded, png, width, height, request_rect, shot>>

\* the recording named from zero
RecFileIdZeroBasedMutant == step_number - 1

\* format!("screenshots/{step_number}.png"): the number in the file's name
RecFileId == step_number

\* the capture of the step returned: `?`, then write_png under the step number
RecShot ==
    /\ pc = "rec_shot"
    /\ ssPc \in {"ok", "err"}
    /\ ssPc' = "idle"
    /\ shot' = NoShot
    /\ IF ssPc = "err"
       THEN /\ pc' = "err"
            /\ UNCHANGED <<nfiles, recorded, png, log>>
       ELSE /\ log' = Append(log, EvCapture(shot))
            /\ \E o \in WriteOutcomes(shot) :
                  LET f == PngLeft("step", RecFileId, shot, o)
                  IN /\ nfiles' = IF Written(o) THEN nfiles + 1 ELSE nfiles
                     /\ recorded' = IF Written(o) THEN Append(recorded, f.name)
                                    ELSE recorded
                     /\ png' = IF Written(o) THEN f ELSE png
                     /\ pc' = PcAfterWrite(o, "loop")
    /\ UNCHANGED <<cfgVars, debug, posVars, keyVars, words, lines, order, width,
                   height, request_rect>>

boot_command ==
    \/ NextStep
    \/ NextItem
    \/ Finish
    \/ TypeKey
    \/ TypeSleep
    \/ TypeDone
    \/ WaitSleep
    \/ SpecialSend
    \/ SpecialDone
    \/ WsSleep
    \/ WsShot
    \/ WsSettle
    \/ WsrSleep
    \/ WsrShot
    \/ WsrSettle
    \/ EndItem
    \/ RecShot

Next == boot_command \/ handle_breakpoint \/ screenshot

Spec == Init /\ [][Next]_vars

(***************************************************************************)
(* SpecTrim: trim on every bounded snapshot and rect.                      *)
(***************************************************************************)
NoCall == [tag |-> "none", shot |-> NoShot]

TrimSnapshots == UNION {Frames(w, h) : w \in 1..MaxDim, h \in 1..MaxDim}
TrimRects ==
    {Rect(t, l, w, h) : t \in 0..MaxCoord, l \in 0..MaxCoord,
                        w \in 0..MaxCoord, h \in 0..MaxCoord}

RunIdle ==
    /\ script = <<>>
    /\ debug = FALSE
    /\ record = FALSE
    /\ width = 1
    /\ height = 1
    /\ pc = "idle"
    /\ si = 1
    /\ ii = 0
    /\ step_number = 0
    /\ ci = 0
    /\ ki = 0
    /\ words = <<>>
    /\ ssPc = "idle"
    /\ request_rect = NoRect
    /\ shot = NoShot
    /\ order = <<>>
    /\ lines = 0
    /\ log = <<>>
    /\ nfiles = 0
    /\ recorded = <<>>
    /\ png = NoFile
    /\ trace = <<>>

InitTrim ==
    /\ tS \in TrimSnapshots
    /\ tR \in TrimRects
    /\ tOut = NoCall
    /\ RunIdle
    /\ HashIdle
    /\ BuildIdle

\* a call s.trim(rect): s is borrowed immutably
TrimCall ==
    /\ tOut = NoCall
    /\ tOut' = Trim(tS, tR)
    /\ UNCHANGED <<tS, tR>>
    /\ UNCHANGED <<runVars, hashVars, buildVars>>

NextTrim == TrimCall

SpecTrim == InitTrim /\ [][NextTrim]_vars

(***************************************************************************)
(* SpecShot: one call of screenshot() against a server that may deliver    *)
(* any event at any time, with the history of the call.                    *)
(***************************************************************************)
\* the heights the server resizes to in SpecShot
ShotHeights == {1, 2}

\* the rects of the pixel blocks the server sends in SpecShot
ShotRects ==
    {Rect(t, l, w, h) : t \in {0, 1}, l \in {0}, w \in ScreenWidths,
                        h \in ShotHeights}

\* one entry of trace: k is "call" (rect: the size the session holds when
\* screenshot() is called), "request" (rect: the rect of request_update), or
\* the event received (rect: the size of a Resize, the rect of a PutPixels of
\* the second loop)
TrEntry(k, r) == [k |-> k, rect |-> r]

\* the call may still receive an event or send a request
TraceOpen == Len(trace) <= MaxEvents

InitShot ==
    /\ tS = NoShot
    /\ tR = NoRect
    /\ tOut = NoCall
    /\ HashIdle
    /\ BuildIdle
    /\ script = <<>>
    /\ debug = FALSE
    /\ record = FALSE
    /\ width \in ScreenWidths
    /\ height \in ShotHeights
    /\ pc = "shot"
    /\ si = 1
    /\ ii = 0
    /\ step_number = 0
    /\ ci = 0
    /\ ki = 0
    /\ words = <<>>
    /\ ssPc = "drain"
    /\ request_rect = NoRect
    /\ shot = NoShot
    /\ order = <<>>
    /\ lines = 0
    /\ log = <<>>
    /\ nfiles = 0
    /\ recorded = <<>>
    /\ png = NoFile
    /\ trace = <<TrEntry("call", RequestRect(width, height))>>

ShotDrainResize ==
    /\ TraceOpen
    /\ \E w \in ScreenWidths, h \in ShotHeights :
          /\ DrainResize(w, h)
          /\ trace' = Append(trace, TrEntry("Resize", RequestRect(w, h)))

ShotDrainDiscard ==
    /\ TraceOpen
    /\ \E ev \in DrainDropped :
          /\ DrainDiscard(ev)
          /\ trace' = Append(trace, TrEntry(ev, NoRect))

ShotDrainEnd ==
    /\ DrainEnd
    /\ UNCHANGED trace

ShotRequest ==
    /\ TraceOpen
    /\ \E sent \in BOOLEAN :
          /\ Request(sent)
          /\ trace' = IF sent THEN Append(trace, TrEntry("request", request_rect'))
                       ELSE trace

ShotPollResize ==
    /\ TraceOpen
    /\ \E w \in ScreenWidths, h \in ShotHeights :
          /\ PollResize(w, h)
          /\ trace' = Append(trace, TrEntry("Resize", RequestRect(w, h)))

ShotPollPutPixels ==
    /\ TraceOpen
    /\ \E r \in ShotRects :
       \E f \in Frames(r.width, r.height) :
          /\ PollPutPixels(r, f)
          /\ trace' = Append(trace, TrEntry("PutPixels", r))

ShotPollEndOfFrame ==
    /\ TraceOpen
    /\ PollEndOfFrame
    /\ trace' = Append(trace, TrEntry("EndOfFrame", NoRect))

ShotPollOther ==
    /\ TraceOpen
    /\ \E ev \in OtherEvents :
          /\ PollOther(ev)
          /\ trace' = Append(trace, TrEntry(ev, NoRect))

ShotPollEmpty ==
    /\ PollEmpty
    /\ UNCHANGED trace

NextShot ==
    \/ ShotDrainResize
    \/ ShotDrainDiscard
    \/ ShotDrainEnd
    \/ ShotRequest
    \/ ShotPollResize
    \/ ShotPollPutPixels
    \/ ShotPollEndOfFrame
    \/ ShotPollOther
    \/ ShotPollEmpty

SpecShot == InitShot /\ [][NextShot]_vars

(***************************************************************************)
(* SpecHash: hash called, again and again, on two snapshots.               *)
(***************************************************************************)
\* the widths and heights of the snapshots hash is called on
HashDims == {1, 2}

HashSnapshots == UNION {Frames(w, h) : w \in HashDims, h \in HashDims}

\* one entry of hOut: the snapshot hash was called on and the value returned
HashResult(s) == [arg |-> s, val |-> Hash(s)]

InitHash ==
    /\ tS = NoShot
    /\ tR = NoRect
    /\ tOut = NoCall
    /\ RunIdle
    /\ BuildIdle
    /\ hA \in HashSnapshots
    /\ hB \in HashSnapshots
    /\ hOut = <<>>

\* a call hA.hash(): &self is borrowed immutably
HashCallA ==
    /\ Len(hOut) < MaxHashCalls
    /\ hOut' = Append(hOut, HashResult(hA))
    /\ UNCHANGED <<hA, hB, trimVars, runVars, buildVars>>

\* a call hB.hash()
HashCallB ==
    /\ Len(hOut) < MaxHashCalls
    /\ hOut' = Append(hOut, HashResult(hB))
    /\ UNCHANGED <<hA, hB, trimVars, runVars, buildVars>>

NextHash == HashCallA \/ HashCallB

SpecHash == InitHash /\ [][NextHash]_vars

(***************************************************************************)
(* SpecBuild: Template::build of the two templates, against collaborators  *)
(* (MediaCache, QemuArgs, the VNC connection, the SSH connection) whose    *)
(* calls may return Ok or Err.                                             *)
(***************************************************************************)
Templates == {"GoldbootLinux", "UbuntuServer"}

\* the results of a call: pending while the call runs, Ok(code) with code
\* the exit status of upload_exec and 0 elsewhere, Err, or a panic
Pending  == [tag |-> "pending", code |-> 0]
Ok(c)    == [tag |-> "ok", code |-> c]
Err      == [tag |-> "err", code |-> 0]
Panicked == [tag |-> "panic", code |-> 0]

\* one entry of calls
Call(op, res) == [op |-> op, res |-> res]

\* build with the shutdown command sent after the wait for the VM's exit
BuildStepsShutdownLastMutant(t, p) ==
    IF t = "GoldbootLinux" /\ p
    THEN <<"MediaCache::get", "start_process", "boot_command", "ssh_wait",
           "upload_exec", "shutdown_wait", "shutdown">>
    ELSE <<"MediaCache::get", "start_process", "boot_command", "ssh_wait",
           "shutdown_wait", "shutdown">>

\* the calls of build in the order of the code: GoldbootLinux calls
\* upload_exec when Resources::get("install.sh") is Some; UbuntuServer has
\* no such call (its loop over the provisioners is empty)
BuildSteps(t, p) ==
    IF t = "GoldbootLinux" /\ p
    THEN <<"MediaCache::get", "start_process", "boot_command", "ssh_wait",
           "upload_exec", "shutdown", "shutdown_wait">>
    ELSE <<"MediaCache::get", "start_process", "boot_command", "ssh_wait",
           "shutdown", "shutdown_wait">>

\* what a call may end with: upload_exec returns Result of an exit status;
\* boot_command returns Result and has unwraps that panic (vnc.rs); the others
\* return Result
Results(op) ==
    CASE op = "upload_exec" -> {Ok(c) : c \in 0..MaxExit} \cup {Err}
      [] op = "boot_command" -> {Ok(0), Err, Panicked}
      [] OTHER -> {Ok(0), Err}

\* the match on upload_exec taking every Ok for success
PayloadSucceededAnyExitMutant(res) == res.tag = "ok"

\* `Ok(0) => debug!(..)`, `_ => bail!("Installation failed")`
PayloadSucceeded(res) == res = Ok(0)

\* build going on when the shutdown command failed
AbortsShutdownIgnoredMutant(op, res) ==
    IF op = "upload_exec" THEN ~PayloadSucceeded(res)
    ELSE op # "shutdown" /\ res.tag = "err"

\* the result makes build return Err: the `?` after every call, the match
\* after upload_exec
Aborts(op, res) ==
    IF op = "upload_exec" THEN ~PayloadSucceeded(res) ELSE res.tag = "err"

InitBuild ==
    /\ tS = NoShot
    /\ tR = NoRect
    /\ tOut = NoCall
    /\ HashIdle
    /\ RunIdle
    /\ template \in Templates
    /\ payload \in (IF template = "GoldbootLinux" THEN BOOLEAN ELSE {FALSE})
    /\ bpc = "run"
    /\ calls = <<>>

\* what build leaves alone besides bpc and calls
buildFrame == <<trimVars, hashVars, runVars, template, payload>>

\* the call build makes next
NextCall == BuildSteps(template, payload)[Len(calls) + 1]

\* build calls op, the call that is next in its code
Invoke(op) ==
    /\ bpc = "run"
    /\ Len(calls) < Len(BuildSteps(template, payload))
    /\ NextCall = op
    /\ calls' = Append(calls, Call(op, Pending))
    /\ bpc' = "in"
    /\ UNCHANGED buildFrame

MediaGet     == Invoke("MediaCache::get")
StartProcess == Invoke("start_process")
BootCommand  == Invoke("boot_command")
SshWait      == Invoke("ssh_wait")
UploadExec   == Invoke("upload_exec")
Shutdown     == Invoke("shutdown")
ShutdownWait == Invoke("shutdown_wait")

\* the call in progress ends: it returns a result, or it panics and build
\* unwinds
CallEnds ==
    /\ bpc = "in"
    /\ \E res \in Results(calls[Len(calls)].op) :
          /\ calls' = [calls EXCEPT ![Len(calls)].res = res]
          /\ bpc' = IF res = Panicked THEN "panic" ELSE "check"
    /\ UNCHANGED buildFrame

\* the `?` after the call, the match after upload_exec: build returns Err or
\* goes on
Propagate ==
    /\ bpc = "check"
    /\ bpc' = IF Aborts(calls[Len(calls)].op, calls[Len(calls)].res)
              THEN "failed" ELSE "run"
    /\ UNCHANGED <<calls, buildFrame>>

\* Ok(())
BuildReturns ==
    /\ bpc = "run"
    /\ Len(calls) = Len(BuildSteps(template, payload))
    /\ bpc' = "done"
    /\ UNCHANGED <<calls, buildFrame>>

NextBuild ==
    \/ MediaGet
    \/ StartProcess
    \/ BootCommand
    \/ SshWait
    \/ UploadExec
    \/ Shutdown
    \/ ShutdownWait
    \/ CallEnds
    \/ Propagate
    \/ BuildReturns

SpecBuild == InitBuild /\ [][NextBuild]_vars

(***************************************************************************)
(* SpecLive: a run of boot_command without an operator that goes on for as *)
(* long as the code does. The screen waits run any number of rounds; the   *)
(* history of a wait keeps the capture of the round before and the round   *)
(* under way. The control thread is one sequential program: a step it can  *)
(* take is taken (sleeps end, poll_iter does not block).                   *)
(***************************************************************************)
\* the capture of the round before, if there was one
LastRound(l) ==
    IF Captures(l) = <<>> THEN <<>>
    ELSE <<Captures(l)[Len(Captures(l))]>>

InitLive ==
    /\ Init
    /\ ~debug

LiveWsSleep == WsRound(LastRound(log))

LiveWsrSleep == WsrRound(LastRound(log))

NextLive ==
    \/ NextStep
    \/ NextItem
    \/ Finish
    \/ TypeKey
    \/ TypeSleep
    \/ TypeDone
    \/ WaitSleep
    \/ SpecialSend
    \/ SpecialDone
    \/ LiveWsSleep
    \/ WsShot
    \/ WsSettle
    \/ LiveWsrSleep
    \/ WsrShot
    \/ WsrSettle
    \/ EndItem
    \/ RecShot
    \/ SsDrainResize
    \/ SsDrainDiscard
    \/ SsDrainEnd
    \/ SsRequest
    \/ SsPollResize
    \/ SsPollPutPixels
    \/ SsPollEndOfFrame
    \/ SsPollOther
    \/ SsPollEmpty

SpecLive == InitLive /\ [][NextLive]_vars /\ WF_vars(NextLive)

\* C1: for a rect inside the snapshot, trim succeeds; the result has the
\* rect's width and height and width*height pixels, pixel (x, y) of it is
\* the pixel of the snapshot at row top+y, column left+x; the snapshot is
\* left as it was.
C1_TrimInside ==
    /\ [](tOut # NoCall /\ Inside(tS, tR) =>
            /\ tOut.tag = "ok"
            /\ tOut.shot.width = tR.width
            /\ tOut.shot.height = tR.height
            /\ Len(tOut.shot.data) = tR.width * tR.height
            /\ \A x \in 0..(tR.width - 1), y \in 0..(tR.height - 1) :
                  tOut.shot.data[y * tR.width + x + 1] =
                      tS.data[(tR.top + y) * tS.width + (tR.left + x) + 1])
    /\ [][tS' = tS]_vars

\* a proper sub-rectangle, away from the origin, was cut out of a snapshot
\* whose rows differ
C1_Witness ==
    /\ tOut.tag = "ok"
    /\ Inside(tS, tR)
    /\ tS.width = 2 /\ tS.height = 2
    /\ tR = Rect(1, 1, 1, 1)
    /\ tS.data = <<0, 0, 0, 1>>
    /\ tOut.shot.data = <<1>>

\* C2: for a rect that does not fit the snapshot, trim returns a bounds
\* error: it neither panics nor returns a snapshot.
C2_TrimOutside ==
    tOut # NoCall /\ ~Inside(tS, tR) => tOut.tag = "err"

(***************************************************************************)
(* Claims about a run of boot_command.                                     *)
(***************************************************************************)
IsPrefix(a, b) == Len(a) <= Len(b) /\ SubSeq(b, 1, Len(a)) = a

\* the key events and pauses of the current item
Effects == SelectSeq(log, LAMBDA e : e.k \in {"key", "sleep"})

\* the digest of a capture entry's snapshot matches the target
Matches(e, target) == Digest(e.s.data) = target

\* C3: a WaitScreen(target) completes only after a capture of that wait whose
\* hash is target; no capture of the wait before it matched; between the
\* matching capture and the completion lies exactly one settle delay and no
\* capture or key event. As long as the wait has not seen a match it is not
\* complete.
C3_WaitScreenMatch ==
    (script # <<>> /\ step_number > 0 /\ ii > 0 /\ ii <= Len(script[si])
        /\ script[si][ii].op = "WaitScreen") =>
      LET target == script[si][ii].hash
          caps   == Captures(log)
          n      == Len(log)
      IN /\ pc \in {"exec", "ws_shot"} =>
               \A i \in 1..Len(caps) : ~Matches(caps[i], target)
         /\ pc = "ws_settle" =>
               /\ log[n].k = "capture" /\ Matches(log[n], target)
               /\ \A i \in 1..(Len(caps) - 1) : ~Matches(caps[i], target)
         /\ pc = "end" =>
               /\ n >= 2
               /\ log[n - 1].k = "capture" /\ Matches(log[n - 1], target)
               /\ log[n] = [k |-> "sleep", n |-> step_number, x |-> SettleMs,
                            y |-> 0, w |-> <<>>, s |-> NoShot]
               /\ \A i \in 1..(Len(caps) - 1) : ~Matches(caps[i], target)
               /\ \A i \in 1..n : log[i].k # "key"

\* a WaitScreen completed at its second capture, the first one not matching
C3_Witness ==
    /\ pc = "end"
    /\ script[si][ii].op = "WaitScreen"
    /\ Len(Captures(log)) = 2
    /\ ~Matches(Captures(log)[1], script[si][ii].hash)
    /\ Matches(Captures(log)[2], script[si][ii].hash)

\* the characters the claim has typed with shift: the uppercase letters and
\* ~ ! # $ % ^ & * ( ) _ +
ClaimShifted(ch) ==
    \/ ch \in (65..90) \cup (192..214) \cup (216..222)
    \/ ch \in {126, 33, 35, 36, 37, 94, 38, 42, 40, 41, 95, 43}

ClaimKey(down, key) ==
    [k |-> "key", x |-> IF down THEN 1 ELSE 0, y |-> key]
ClaimPause == [k |-> "sleep", x |-> 200, y |-> 0]

\* the key events and pauses the claim gives for a text
RECURSIVE ClaimTyped(_)
ClaimTyped(text) ==
    IF text = <<>> THEN <<>>
    ELSE LET ch == text[1]
         IN (IF ClaimShifted(ch)
             THEN <<ClaimKey(TRUE, 65505), ClaimKey(TRUE, 16777216 + ch),
                    ClaimKey(FALSE, 16777216 + ch), ClaimKey(FALSE, 65505)>>
             ELSE <<ClaimKey(TRUE, 16777216 + ch), ClaimKey(FALSE, 16777216 + ch)>>)
            \o <<ClaimPause>> \o ClaimTyped(Tail(text))

\* the key events and pauses of the current item, as the claim writes them
Typed == [i \in 1..Len(Effects) |->
             [k |-> Effects[i].k, x |-> Effects[i].x, y |-> Effects[i].y]]

\* shift is down after the events of t
ShiftDown(t) ==
    Cardinality({i \in 1..Len(t) : t[i] = ClaimKey(TRUE, 65505)}) >
    Cardinality({i \in 1..Len(t) : t[i] = ClaimKey(FALSE, 65505)})

\* C4: the events of a Type(text) are, character by character: shift-down,
\* key-down, key-up, shift-up for an uppercase letter or one of
\* ~ ! # $ % ^ & * ( ) _ +, else key-down, key-up, of 0x01000000 + code
\* point; then one pause of 200 ms. While the command runs, and when a send
\* fails, what was emitted is the beginning of that sequence; when it
\* completes it is all of it, shift is up at every pause and at the end, and
\* the key-up of a character follows its key-down at once.
C4_TypeEvents ==
    (script # <<>> /\ step_number > 0 /\ ii > 0 /\ ii <= Len(script[si])
        /\ script[si][ii].op = "Type" /\ pc \in {"exec", "end", "err"}) =>
      LET want == ClaimTyped(script[si][ii].text)
      IN /\ IsPrefix(Typed, want)
         /\ pc = "end" =>
               /\ Typed = want
               /\ ~ShiftDown(Typed)
               /\ \A i \in 1..Len(Typed) :
                     /\ Typed[i] = ClaimPause => ~ShiftDown(SubSeq(Typed, 1, i))
                     /\ (Typed[i].k = "key" /\ Typed[i].x = 1 /\ Typed[i].y # 65505) =>
                           /\ i < Len(Typed)
                           /\ Typed[i + 1] = ClaimKey(FALSE, Typed[i].y)

\* "Ab1!" was typed to its end: twelve key events and four pauses
C4_Witness ==
    /\ pc = "end"
    /\ script[si][ii].op = "Type"
    /\ script[si][ii].text = <<65, 98, 49, 33>>
    /\ Len(Typed) = 16
    /\ Typed[1] = ClaimKey(TRUE, 65505)
    /\ Typed[6] = ClaimKey(TRUE, 16777216 + 98)
    /\ Typed[15] = ClaimKey(FALSE, 65505)

\* the control thread is inside handle_breakpoint
AtBreakpoint == pc \in {"bp", "bp_shot"}

\* this step reads a line of the operator
ReadsLine == log' # log /\ log' # <<>> /\ log'[1].k = "prompt" /\ Len(log') = 1

\* C5: with debug and record both false, a run never shows a breakpoint
\* prompt, never reads a line of the operator and never writes a PNG file, up
\* to and including its last state, and both flags stay false.
C5_QuietRun ==
    /\ [](~debug => ~AtBreakpoint)
    /\ [][(~debug /\ ~record) =>
             /\ ~debug' /\ ~record'
             /\ ~ReadsLine
             /\ nfiles' = nfiles /\ recorded' = recorded /\ png' = NoFile]_vars

\* a run of a script that is only run without an operator, record off, ended
\* after three commands with no file written
C5_Witness ==
    /\ pc = "done"
    /\ ~debug /\ ~record
    /\ script \notin DebugScripts
    /\ step_number = 3
    /\ nfiles = 0

\* the region of snapshot sn the claim names for rect r, row by row
ClaimRegion(sn, r) ==
    [i \in 1..(r.width * r.height) |->
        sn.data[(r.top + ((i - 1) \div r.width)) * sn.width
                + r.left + ((i - 1) % r.width) + 1]]

\* the operator's last line is `s` and four numbers
SRectLine ==
    /\ log # <<>> /\ log[1].k = "prompt"
    /\ Len(log[1].w) >= 5 /\ log[1].w[1] = <<"s">>
    /\ \A i \in 2..5 : ParseU16(log[1].w[i]) \in 0..65535

\* the rect of that line: top, left, width, height
SRect ==
    [top |-> ParseU16(log[1].w[2]), left |-> ParseU16(log[1].w[3]),
     width |-> ParseU16(log[1].w[4]), height |-> ParseU16(log[1].w[5])]

\* the file of an `s` line with a rect, once the frame is captured: one file
\* and no more, named by the hash of the region of the rect, holding the PNG
\* of width x height of the region or what the disk kept of it. (When
\* write_png fails before the file is created there is none.)
RectFileOrLost ==
    /\ pc \in {"bp", "err", "panic"}
    /\ pc = "bp" => nfiles = log[1].x + 1
    /\ nfiles \in {log[1].x, log[1].x + 1}
    /\ nfiles = log[1].x <=> png = NoFile
    /\ png # NoFile =>
          /\ png.name = [kind |-> "hash",
                         id |-> Digest(ClaimRegion(log[2].s, SRect))]
          /\ png.data # <<>> =>
                /\ png.width = SRect.width
                /\ png.height = SRect.height
                /\ png.data = ClaimRegion(log[2].s, SRect)
          /\ png.data = <<>> =>
                /\ png.width \in {0, SRect.width}
                /\ png.height \in {0, SRect.height}

\* the capture of an `s` line with four numbers has returned and the rect
\* lies inside it
RectCaptured ==
    /\ pc = "bp_shot" /\ ssPc = "ok"
    /\ Len(words) >= 4
    /\ BpRectValid(words)
    /\ Inside(shot, BpRect(words))

\* write_png can write the region of the rect: on a disk that keeps what it
\* is given the call returns Ok and the file holds the image
RectFileWritable ==
    \E o \in WriteOutcomes(Trim(shot, BpRect(words)).shot) :
        o.res = "ok" /\ o.left = "image"

\* what the claim says of that file: when the operator is prompted again,
\* it is the PNG of width x height of the region
RectFileAsClaimed ==
    /\ RectFileOrLost
    /\ pc = "bp" =>
          /\ png.width = SRect.width
          /\ png.height = SRect.height
          /\ png.data = ClaimRegion(log[2].s, SRect)

\* C6: an operator line `s top left width height` of four numbers whose rect
\* lies inside the captured frame writes one PNG file and no more; its name is
\* the hash of the trimmed region and its size width x height.
C6_BreakpointRectFile ==
    /\ RectCaptured => RectFileWritable
    /\ (SRectLine /\ Len(log) = 2 /\ log[2].k = "capture"
          /\ Inside(log[2].s, SRect)) => RectFileAsClaimed

\* C6 for the rects of positive width and height, but for the content of the
\* file, which is the region or what the disk kept of it
C6_PositiveAreaFile ==
    /\ (RectCaptured /\ BpRect(words).width > 0 /\ BpRect(words).height > 0) =>
          RectFileWritable
    /\ (SRectLine /\ Len(log) = 2 /\ log[2].k = "capture"
          /\ Inside(log[2].s, SRect)
          /\ SRect.width > 0 /\ SRect.height > 0) => RectFileOrLost

\* `s 0 1 1 1` on a 2 x 2 frame wrote the file of the one pixel, whose hash
\* is not the frame's
C6_Witness ==
    /\ pc = "bp"
    /\ SRectLine /\ Len(log) = 2 /\ Inside(log[2].s, SRect)
    /\ log[2].s = [width |-> 2, height |-> 2, data |-> <<0, 1, 1, 0>>]
    /\ SRect = [top |-> 0, left |-> 1, width |-> 1, height |-> 1]
    /\ png.data = <<1>>
    /\ png.name.id # Digest(log[2].s.data)

\* the commands of a script in the order given
RECURSIVE Flatten(_)
Flatten(sc) ==
    IF sc = <<>> THEN <<>> ELSE sc[1] \o Flatten(Tail(sc))

\* begin and end of each command of a sequence, in order
RECURSIVE Marks(_)
Marks(cmds) ==
    IF cmds = <<>> THEN <<>>
    ELSE <<[k |-> "begin", cmd |-> cmds[1]], [k |-> "end", cmd |-> cmds[1]]>>
         \o Marks(Tail(cmds))

\* the control thread is handling a command
InItem ==
    pc \in {"bp", "bp_shot", "exec", "ws_shot", "ws_settle", "wsr_shot",
            "wsr_settle", "end"}

\* C7: the commands are handled in the order of the script, step by step and
\* command by command: what was begun and ended so far is the beginning of
\* begin 1, end 1, begin 2, end 2, ...; every key event, pause, capture and
\* prompt happens for the command begun last and not yet followed by another;
\* a run that returns success has handled every command once.
C7_ScriptOrder ==
    /\ IsPrefix(order, Marks(Flatten(script)))
    /\ step_number = Cardinality({i \in 1..Len(order) : order[i].k = "begin"})
    /\ \A i \in 1..Len(log) : log[i].n = step_number
    /\ step_number = 0 => log = <<>>
    /\ InItem =>
          /\ order # <<>>
          /\ order[Len(order)] =
                [k |-> "begin", cmd |-> Flatten(script)[step_number]]
    /\ pc = "done" => order = Marks(Flatten(script))

\* a script of two steps and three different commands ended in success
C7_Witness ==
    /\ pc = "done"
    /\ Len(script) = 2
    /\ Len(order) = 6
    /\ order[1].cmd.op = "Wait" /\ order[3].cmd.op = "Type"
    /\ order[5].cmd.op = "Enter"

\* this step takes the next command of the script
TakesItem == step_number' = step_number + 1

\* this step ends a breakpoint: the match of the command starts
EndsBreakpoint == AtBreakpoint /\ pc' = "exec"

\* C8: when a command is taken, a breakpoint is entered if and only if debug
\* is true then and the command is not a Wait, else the command starts at
\* once; while the breakpoint is open there is no key event and no pause, and
\* a capture only in answer to an `s` line; the command starts only when the
\* operator enters `c` or `q`.
C8_BreakpointBeforeCommand ==
    /\ [][TakesItem =>
             /\ pc' \in {"bp", "exec"}
             /\ pc' = "bp" <=> (debug /\ Flatten(script)[step_number'].op # "Wait")]_vars
    /\ [](AtBreakpoint =>
             /\ Effects = <<>>
             /\ \/ log = <<>>
                \/ /\ log[1].k = "prompt"
                   /\ Len(log) <= 2
                   /\ Len(log) = 2 =>
                         log[2].k = "capture" /\ log[1].w[1] = <<"s">>)
    /\ [][(AtBreakpoint /\ log' # log) => Effects' = <<>>]_vars
    /\ [][EndsBreakpoint =>
             /\ pc = "bp"
             /\ Len(log') = 1 /\ log'[1].k = "prompt"
             /\ log'[1].w # <<>> /\ log'[1].w[1] \in {<<"c">>, <<"q">>}]_vars

\* with debug on, a Wait started with no breakpoint and the Type after it
\* waits at one
C8_Witness ==
    /\ debug
    /\ pc = "bp"
    /\ step_number = 2
    /\ Flatten(script)[1].op = "Wait"
    /\ Flatten(script)[2].op = "Type"
    /\ order[2] = [k |-> "end", cmd |-> Flatten(script)[1]]
    /\ log # <<>>

\* this step handles the operator's line `q`
EntersQuit ==
    /\ pc = "bp"
    /\ ReadsLine
    /\ log'[1].w # <<>> /\ log'[1].w[1] = <<"q">>

\* C9: `q` at the breakpoint of a command does not abort the run: debug
\* becomes false, the match of that same command starts, and from then on no
\* command waits at a breakpoint and no line of the operator is read.
C9_QuitDebugging ==
    /\ [][EntersQuit =>
             /\ ~debug'
             /\ pc' = "exec"
             /\ <<si', ii', step_number', order'>> = <<si, ii, step_number, order>>]_vars
    /\ [][~debug => ~debug' /\ ~ReadsLine /\ pc' \notin {"bp", "bp_shot"}]_vars
    /\ [](pc = "done" => order = Marks(Flatten(script)))

\* after `q` at an earlier command, a later command that is not a Wait started
\* with no prompt, and the run ended in success
C9_Witness ==
    /\ script \in DebugScripts
    /\ ~debug
    /\ pc = "done"
    /\ lines = 0
    /\ Flatten(script)[step_number].op = "Enter"
    /\ log # <<>> /\ log[1].k = "key"

\* C10: no step changes debug from false to true; debug changes from true to
\* false only when the operator enters `q` at a breakpoint; record never
\* changes.
C10_FlagsMonotone ==
    /\ [][debug' => debug]_vars
    /\ [][(debug /\ ~debug') => EntersQuit]_vars
    /\ [][record' = record]_vars

\* the operator entered `q`: debug went from true to false, record kept
C10_Witness ==
    /\ script \in DebugScripts
    /\ ~debug /\ record
    /\ pc = "exec"
    /\ log # <<>> /\ log[1].k = "prompt" /\ log[1].w = << <<"q">> >>

\* the names of the first n files of a recording: steps 1, 2, ..., n
StepNames(n) == [i \in 1..n |-> [kind |-> "step", id |-> i]]

\* the recording follows the commands: when the loop takes up again, the
\* files of the recording are those of steps 1..step_number and the capture
\* taken last is the only one since the command's last effect; while a
\* command is handled the recording holds the files of the commands before
\* it. With record false the recording stays empty.
RecordingInStep ==
    /\ [](~record => recorded = <<>> /\ pc # "rec_shot")
    /\ [](record =>
            /\ Len(recorded) <= step_number
            /\ recorded = StepNames(Len(recorded))
            /\ (InItem \/ pc = "rec_shot") => Len(recorded) = step_number - 1
            /\ pc \in {"loop", "done"} => Len(recorded) = step_number
            /\ pc \in {"err", "panic"} => Len(recorded) >= step_number - 1
            /\ (pc = "loop" /\ step_number > 0) =>
                  LET n == Len(log)
                  IN /\ n >= 2
                     /\ log[n].k = "capture"
                     /\ log[n - 1].k # "capture"
                     /\ png.name = [kind |-> "step", id |-> step_number])
    /\ [][recorded' # recorded =>
             /\ pc = "rec_shot"
             /\ Len(recorded') = Len(recorded) + 1
             /\ nfiles' = nfiles + 1]_vars
    /\ [][(record /\ step_number' = step_number + 1) =>
             Len(recorded) = step_number]_vars

\* the loop takes up again after a recorded command
StepRecorded == record /\ pc = "loop" /\ step_number > 0

\* the file written last is the PNG of the capture taken last
LastFileIsCapture ==
    /\ png.width = log[Len(log)].s.width
    /\ png.height = log[Len(log)].s.height
    /\ png.data = log[Len(log)].s.data

\* the file written last is the PNG of the capture taken last, or what the
\* disk kept of it: its header, or nothing
LastFileIsCaptureOrLost ==
    \/ LastFileIsCapture
    \/ /\ png.data = <<>>
       /\ png.width \in {0, log[Len(log)].s.width}
       /\ png.height \in {0, log[Len(log)].s.height}

\* C11: with record true, every command that completed is followed, before
\* the next command is taken and before the run returns, by one capture that
\* is persisted as the PNG file named by the 1-based number of the command:
\* the recording follows the commands and, when the loop takes up again, the
\* file of the step holds the capture taken last. With record false the
\* recording stays empty.
C11_RecordEachStep ==
    /\ RecordingInStep
    /\ [](StepRecorded => LastFileIsCapture)

\* C11 but for the content of the file, which is the capture or what the disk
\* kept of it
C11_RecordEachStepOrLost ==
    /\ RecordingInStep
    /\ [](StepRecorded => LastFileIsCaptureOrLost)

\* a recorded run with an operator ended in success: a screen wait and a key
\* behind breakpoints and a Wait behind none, one file each
C11_Witness ==
    /\ pc = "done"
    /\ record
    /\ script \in DebugScripts
    /\ debug
    /\ Flatten(script)[1].op = "WaitScreen"
    /\ Flatten(script)[3].op = "Wait"
    /\ recorded = StepNames(3)

(***************************************************************************)
(* Claims about one call of screenshot().                                  *)
(***************************************************************************)
\* the positions of the requests in trace
Requests == {i \in 1..Len(trace) : trace[i].k = "request"}

\* the position of the request sent last
LastRequest == CHOOSE i \in Requests : \A j \in Requests : j <= i

\* the size the session holds after the first i entries of trace: that of
\* the Resize received last, or the size at the call
RECURSIVE SizeAfter(_)
SizeAfter(i) ==
    IF trace[i].k \in {"call", "Resize"} THEN trace[i].rect ELSE SizeAfter(i - 1)

\* C12: a Resize received after a request was sent and before a block was
\* accepted invalidates the request: the call returns no block of the rect
\* requested before the Resize, the request is sent again at the new size,
\* and the snapshot returned has the width and height the session holds when
\* the call returns.
C12_ResizeInvalidatesRequest ==
    ssPc = "ok" =>
        /\ shot.width = width
        /\ shot.height = height
        /\ trace[LastRequest].rect = [top |-> 0, left |-> 0, width |-> width,
                                      height |-> height]

\* the call received a Disconnected or another event that is not a
\* PutPixels, an EndOfFrame or a Resize
FatalSeen ==
    \E i \in 1..Len(trace) :
        trace[i].k \notin {"call", "request", "Resize", "PutPixels", "EndOfFrame"}

\* C13: a call of screenshot() that received a Disconnected, or any event
\* other than PutPixels, EndOfFrame and Resize, at any point, the first loop
\* over the pending events included, has failed with an error and returns no
\* snapshot.
C13_FatalEventFails ==
    FatalSeen => (ssPc = "err" /\ shot = NoShot)

\* C18: every request covers left 0, top 0 and the width and height the
\* session holds when it is sent, that is the size of the Resize received
\* last before it, or the size at the call; none is sent before the first
\* loop is over; a snapshot is returned only for the PutPixels received last
\* when its rect is the rect of the request sent last, with the width and
\* height of that rect; a PutPixels of another rect changes nothing and is
\* no error.
C18_RequestAndAccept ==
    /\ [](\A i \in Requests :
            /\ trace[i].rect = SizeAfter(i)
            /\ trace[i].rect.top = 0 /\ trace[i].rect.left = 0)
    /\ [][Len(trace') > Len(trace) /\ trace'[Len(trace')].k = "request" =>
             /\ ssPc = "request"
             /\ trace'[Len(trace')].rect =
                   [top |-> 0, left |-> 0, width |-> width, height |-> height]]_vars
    /\ [](ssPc = "drain" => Requests = {})
    /\ [](ssPc = "ok" =>
            /\ Requests # {}
            /\ trace[Len(trace)].k = "PutPixels"
            /\ trace[Len(trace)].rect = trace[LastRequest].rect
            /\ shot.width = trace[LastRequest].rect.width
            /\ shot.height = trace[LastRequest].rect.height
            /\ Len(shot.data) = shot.width * shot.height)
    /\ [](ssPc # "ok" => shot = NoShot)
    /\ [][(ssPc = "poll" /\ Len(trace') > Len(trace)
            /\ trace'[Len(trace')].k = "PutPixels"
            /\ trace'[Len(trace')].rect # trace[LastRequest].rect) =>
             /\ ssPc' = "poll"
             /\ pc' = pc
             /\ <<width', height', request_rect', shot'>> =
                   <<width, height, request_rect, shot>>]_vars

\* a call that found a Resize pending, sent its request at the new size,
\* skipped a block of the same size one row down and returned the block of
\* the requested rect
C18_Witness ==
    /\ ssPc = "ok"
    /\ Len(trace) = 5
    /\ trace[1] = [k |-> "call", rect |-> [top |-> 0, left |-> 0, width |-> 1,
                                           height |-> 2]]
    /\ trace[2] = [k |-> "Resize", rect |-> [top |-> 0, left |-> 0,
                                             width |-> 2, height |-> 2]]
    /\ trace[3].k = "request"
    /\ trace[4] = [k |-> "PutPixels", rect |-> [top |-> 1, left |-> 0,
                                                width |-> 2, height |-> 2]]
    /\ trace[5].k = "PutPixels"
    /\ shot = [width |-> 2, height |-> 2, data |-> <<0, 1, 1, 0>>]

(***************************************************************************)
(* Claims about a build.                                                   *)
(***************************************************************************)
\* the operations of the claim in its order: media resolution, VM process
\* start, boot script, remote-shell wait, payload (if there is one), guest
\* shutdown command, wait for the VM's exit
ClaimOrder ==
    <<"MediaCache::get", "start_process", "boot_command", "ssh_wait">>
    \o (IF template = "GoldbootLinux" /\ payload THEN <<"upload_exec">> ELSE <<>>)
    \o <<"shutdown", "shutdown_wait">>

\* the operations build invoked so far, in order
Invoked == [i \in 1..Len(calls) |-> calls[i].op]

\* the i-th call returned success
Succeeded(i) == calls[i].res = [tag |-> "ok", code |-> 0]

\* C14: the operations a build invokes are, in this order, media resolution,
\* VM process start, boot script, remote-shell wait, payload upload-and-execute
\* (only for a template that has a payload), guest shutdown command, wait for
\* the VM's exit: what was invoked so far is the beginning of that sequence,
\* so each is invoked at most once; one is invoked only when all before it
\* returned success; the build returns success only after all were invoked
\* and the wait for the VM's exit returned success.
C14_BuildOrder ==
    /\ IsPrefix(Invoked, ClaimOrder)
    /\ \A i, j \in 1..Len(calls) : calls[i].op = calls[j].op => i = j
    /\ \A i \in 1..(Len(calls) - 1) : Succeeded(i)
    /\ bpc = "run" => \A i \in 1..Len(calls) : Succeeded(i)
    /\ bpc = "done" =>
          /\ Invoked = ClaimOrder
          /\ calls[Len(calls)].op = "shutdown_wait"
          /\ \A i \in 1..Len(calls) : Succeeded(i)

\* a build with a payload returned success after its seven operations
C14_Witness ==
    /\ bpc = "done"
    /\ template = "GoldbootLinux"
    /\ payload
    /\ Len(calls) = 7
    /\ calls[5].op = "upload_exec"
    /\ calls[6].op = "shutdown"

\* the payload was run and did not return exit status 0
PayloadFailed ==
    \E i \in 1..Len(calls) :
        /\ calls[i].op = "upload_exec"
        /\ calls[i].res.tag \in {"ok", "err"}
        /\ calls[i].res # [tag |-> "ok", code |-> 0]

\* C15: when the payload returns an exit status other than 0, or its upload
\* or execution returns an error, the build fails: the payload is the last
\* operation invoked, it was invoked once, neither the shutdown command nor
\* the wait for the VM's exit is invoked, and the build does not return
\* success; the only step left is the return of the error.
C15_PayloadFailureFatal ==
    /\ [](PayloadFailed =>
            /\ calls[Len(calls)].op = "upload_exec"
            /\ Cardinality({i \in 1..Len(calls) : calls[i].op = "upload_exec"}) = 1
            /\ \A i \in 1..Len(calls) : calls[i].op \notin {"shutdown", "shutdown_wait"}
            /\ bpc \in {"check", "failed"})
    /\ [][PayloadFailed => (calls' = calls /\ bpc' = "failed")]_vars

\* a build failed on exit status 2 of the payload
C15_Witness ==
    /\ bpc = "failed"
    /\ Len(calls) = 5
    /\ calls[5] = [op |-> "upload_exec", res |-> [tag |-> "ok", code |-> 2]]

\* the i-th call returned a failure: an error, or it is the payload and
\* returned an exit status other than 0
FailureReturned(i) ==
    \/ calls[i].res.tag = "err"
    \/ calls[i].op = "upload_exec" /\ calls[i].res.tag = "ok" /\ calls[i].res.code # 0

\* the i-th call failed: it returned a failure, or it did not return (the
\* boot script panicked)
Failed(i) == FailureReturned(i) \/ calls[i].res.tag = "panic"

\* C16: when an operation of the build fails, whichever it is, the build
\* fails: the failed operation is the last one invoked and the only one that
\* failed, it is not invoked again, the only step left is the return of the
\* error, and after that the build does nothing more; a build that returned
\* an error has a failed operation, and one that returned success has none.
C16_AnyFailureFatal ==
    /\ [](\A i \in 1..Len(calls) : Failed(i) =>
            /\ i = Len(calls)
            /\ bpc \in {"check", "failed"}
            /\ \A j \in 1..(i - 1) : calls[j].op # calls[i].op)
    /\ [][(calls # <<>> /\ Failed(Len(calls))) =>
             (calls' = calls /\ bpc' = "failed")]_vars
    /\ [][(bpc \in {"failed", "panic", "done"}) =>
             (bpc' = bpc /\ calls' = calls)]_vars
    /\ [](bpc = "failed" => calls # <<>> /\ Failed(Len(calls)))
    /\ [](bpc = "done" => \A i \in 1..Len(calls) : ~Failed(i))

\* C16 for the failures that are returned, and for every failure but for the
\* return of the error: a returned failure makes the build return the error;
\* after any failure no operation is invoked, the failed one included, and
\* the build does nothing more.
C16_ReturnedFailureFatal ==
    /\ [](\A i \in 1..Len(calls) : Failed(i) =>
            /\ i = Len(calls)
            /\ FailureReturned(i) => bpc \in {"check", "failed"}
            /\ ~FailureReturned(i) => bpc = "panic"
            /\ \A j \in 1..(i - 1) : calls[j].op # calls[i].op)
    /\ [][(calls # <<>> /\ FailureReturned(Len(calls))) =>
             (calls' = calls /\ bpc' = "failed")]_vars
    /\ [][(bpc \in {"failed", "panic", "done"}) =>
             (bpc' = bpc /\ calls' = calls)]_vars
    /\ [](bpc = "failed" => calls # <<>> /\ FailureReturned(Len(calls)))
    /\ [](bpc = "done" => \A i \in 1..Len(calls) : ~Failed(i))

\* a build without payload failed on the shutdown command: the wait for the
\* VM's exit was not invoked
C16_Witness ==
    /\ bpc = "failed"
    /\ template = "UbuntuServer"
    /\ Len(calls) = 5
    /\ calls[5] = [op |-> "shutdown", res |-> [tag |-> "err", code |-> 0]]

\* C17: the value of hash depends on the pixel bytes of the snapshot only:
\* calls on snapshots with the same bytes return the same value, on every
\* call and whatever the widths and heights, so the test of a screen wait
\* gives the same answer for them; the snapshots are left as they were.
C17_HashBytesOnly ==
    /\ [](\A i, j \in 1..Len(hOut) :
            hOut[i].arg.data = hOut[j].arg.data =>
                /\ hOut[i].val = hOut[j].val
                /\ \A k \in 1..Len(hOut) :
                      WsMatch(hOut[i].arg, hOut[k].val) =
                          WsMatch(hOut[j].arg, hOut[k].val))
    /\ [][hA' = hA /\ hB' = hB]_vars

\* hash was called twice on a snapshot of one column and two rows and once
\* on a snapshot of one row and two columns with the same two bytes
C17_Witness ==
    /\ Len(hOut) = 3
    /\ hA = [width |-> 1, height |-> 2, data |-> <<0, 1>>]
    /\ hB = [width |-> 2, height |-> 1, data |-> <<0, 1>>]
    /\ hOut[1].arg = hA /\ hOut[2].arg = hA /\ hOut[3].arg = hB
    /\ hOut[1].val = hOut[3].val

\* a WaitScreenRect is being handled and its breakpoint, if any, is over:
\* the operator's last line, if there is one, was `c` or `q`
InRectWait ==
    /\ script # <<>> /\ step_number > 0 /\ ii > 0 /\ ii <= Len(script[si])
    /\ script[si][ii].op = "WaitScreenRect"
    /\ order[Len(order)].k = "begin"
    /\ pc \notin {"bp", "bp_shot"}
    /\ \/ log = <<>>
       \/ log[1].k # "prompt"
       \/ log[1].w # <<>> /\ log[1].w[1] \in {<<"c">>, <<"q">>}

\* the positions in log of the captures of the wait: those taken after a pause
WaitCaptures ==
    {i \in 2..Len(log) : log[i].k = "capture" /\ log[i - 1].k = "sleep"}

\* the rect of the wait fits capture entry e and the region of e it names
\* hashes to the target
RegionMatches(e) ==
    /\ Inside(e.s, script[si][ii].rect)
    /\ Digest(ClaimRegion(e.s, script[si][ii].rect)) = script[si][ii].hash

\* the rect of the wait fits capture entry e and the region does not hash to
\* the target
RegionDiffers(e) ==
    /\ Inside(e.s, script[si][ii].rect)
    /\ Digest(ClaimRegion(e.s, script[si][ii].rect)) # script[si][ii].hash

\* C19: a WaitScreenRect(target, rect) completes only after a capture of that
\* wait whose region rect hashes to target: as long as the captures the rect
\* fits in had regions of another hash the wait goes on, whatever the hash of
\* the whole capture; every capture follows a pause of 1000 ms, the same for
\* every poll; between the matching capture and the end of the command lies
\* one settle delay and no key event and no capture. (Captures the rect does
\* not fit in are the matter of C20.)
C19_WaitScreenRectMatch ==
    InRectWait =>
      LET n == Len(log)
      IN /\ \A i \in 1..n : log[i].k = "capture" => i \in WaitCaptures
         /\ \A i \in WaitCaptures : log[i - 1].x = 1000
         /\ \A i \in 1..n : log[i].k # "key"
         /\ \A i \in WaitCaptures :
               /\ RegionDiffers(log[i]) => (i = n => pc \in {"exec", "wsr_shot"})
               /\ i < n - 1 => ~RegionMatches(log[i])
               /\ (i = n - 1 /\ pc # "end") => ~RegionMatches(log[i])
         /\ pc = "wsr_settle" =>
               /\ n \in WaitCaptures
               /\ Inside(log[n].s, script[si][ii].rect) => RegionMatches(log[n])
         /\ pc = "end" =>
               /\ n - 1 \in WaitCaptures
               /\ Inside(log[n - 1].s, script[si][ii].rect) =>
                     RegionMatches(log[n - 1])
               /\ log[n] = [k |-> "sleep", n |-> step_number, x |-> 1000,
                            y |-> 0, w |-> <<>>, s |-> NoShot]

\* a wait for one pixel of the screen completed at its second capture; the
\* region of the first capture had another hash
C19_Witness ==
    /\ InRectWait
    /\ pc = "end"
    /\ Len(log) = 5
    /\ RegionDiffers(log[2])
    /\ RegionMatches(log[4])
    /\ Digest(log[4].s.data) # script[si][ii].hash

\* the operator's last line is `s` and four numbers, and the capture taken
\* for it is in log
SRectCaptured ==
    /\ SRectLine
    /\ Len(log) = 2
    /\ log[2].k = "capture"

\* C20: when the rect of a WaitScreenRect does not fit the frame captured at
\* a poll, the wait ends at that poll and boot_command returns an error: it
\* neither polls again nor takes the wait for matched, and no later command
\* starts; likewise for the rect of an operator line `s top left width
\* height`.
C20_RectOutsidePropagates ==
    /\ (InRectWait /\
          \E i \in WaitCaptures : ~Inside(log[i].s, script[si][ii].rect)) =>
              pc = "err"
    /\ (SRectCaptured /\ ~Inside(log[2].s, SRect)) => pc = "err"

(***************************************************************************)
(* Claims about the lines of the operator, the errors and the counter of   *)
(* boot_command.                                                           *)
(***************************************************************************)
\* this step handles a line of the operator whose first word is none of `c`,
\* `s` and `q`, or that has no word
OtherLine ==
    /\ pc = "bp"
    /\ ReadsLine
    /\ FirstWord(log'[1].w) \notin {<<"c">>, <<"s">>, <<"q">>}

\* C22: a line of the operator whose first word is not `c`, `s` or `q`, the
\* empty line included, is ignored: the step that handles it takes no capture,
\* writes no file, leaves debug, the position in the script and the command's
\* effects as they are, and is back at the prompt; a breakpoint gives way to
\* its command only on `c` or `q`.
C22_OtherLineIgnored ==
    /\ [][OtherLine =>
             /\ pc' = "bp"
             /\ debug' = debug
             /\ ssPc = "idle" /\ ssPc' = "idle"
             /\ <<width', height', request_rect', shot'>> =
                   <<width, height, request_rect, shot>>
             /\ Captures(log') = <<>>
             /\ Effects' = <<>>
             /\ nfiles' = nfiles /\ recorded' = recorded /\ png' = NoFile
             /\ <<si', ii', step_number', ci', ki', order'>> =
                   <<si, ii, step_number, ci, ki, order>>]_vars
    /\ [][(pc = "bp" /\ pc' = "exec") =>
             /\ ReadsLine
             /\ FirstWord(log'[1].w) \in {<<"c">>, <<"q">>}]_vars

\* the operator entered an empty line, then `cc`: both were ignored, nothing
\* was written and the command still waits at the prompt
C22_Witness ==
    /\ pc = "bp"
    /\ debug
    /\ lines = 2
    /\ log = <<EvPrompt(<< <<"c", "c">> >>)>>
    /\ nfiles = 0
    /\ recorded = <<>>
    /\ Len(order) = 1

\* the operator's last line is `s` and four words of which one at least is
\* not a number of 16 bits
SBadLine ==
    /\ log # <<>> /\ log[1].k = "prompt"
    /\ Len(log[1].w) >= 5 /\ log[1].w[1] = <<"s">>
    /\ \E i \in 2..5 : ParseU16(log[1].w[i]) \notin 0..65535

\* C25: an operator line `s` and four words of which one is not a number of
\* 16 bits does not come back to the prompt: the capture is requested, and
\* once the full frame is captured boot_command has returned an error; no
\* file is written, the pending command has no effect, and neither it nor a
\* later command is ever taken up. (When the capture itself fails the run
\* ends as well.)
C25_BadRectWordsFatal ==
    /\ [](SBadLine =>
            /\ pc \in {"bp_shot", "err", "panic"}
            /\ Len(log) <= 2
            /\ Effects = <<>>
            /\ nfiles = log[1].x
            /\ png = NoFile)
    /\ [](SBadLine /\ Len(log) = 2 =>
            /\ pc = "err"
            /\ log[2].k = "capture"
            /\ log[2].s.width = request_rect.width
            /\ log[2].s.height = request_rect.height
            /\ request_rect.top = 0 /\ request_rect.left = 0)
    /\ [][SBadLine =>
             /\ log' # <<>> /\ log'[1] = log[1]
             /\ <<si', ii', step_number', order', debug'>> =
                   <<si, ii, step_number, order, debug>>]_vars
    /\ [][(SBadLine /\ pc = "err") => vars' = vars]_vars

\* `s 0 0 1 65536`: the frame was captured, the run ended in an error before
\* the command began, and no file was written
C25_Witness ==
    /\ pc = "err"
    /\ SBadLine
    /\ log[1].w[5] = <<"6", "5", "5", "3", "6">>
    /\ Len(log) = 2
    /\ log[2].s.data = <<0, 1, 1, 0>>
    /\ nfiles = 0
    /\ order = <<Mark("begin", Cur)>>

\* the commands begun so far
Begun == SelectSeq(order, LAMBDA m : m.k = "begin")

\* C26: the counter that names the files of the recording counts commands,
\* not steps: it is the number of commands begun so far, a Wait included, it
\* is 1 at the first command, it goes up by one exactly when a command is
\* taken and is left alone when the outer loop takes the next step; a file of
\* the recording is named by the counter, which is above the number of every
\* file recorded before, so no file is written twice; and a recorded run that
\* returns success has written 1.png .. N.png in this order, N being the
\* number of commands of the script, and without an operator nothing else.
C26_CounterPerCommand ==
    /\ [](step_number = Len(Begun))
    /\ [](Len(order) = 1 => step_number = 1)
    /\ [][step_number' # step_number =>
             /\ step_number' = step_number + 1
             /\ order' = Append(order, Mark("begin", Flatten(script)[step_number']))]_vars
    /\ [][si' # si => step_number' = step_number /\ order' = order]_vars
    /\ [][recorded' # recorded =>
             /\ recorded' = Append(recorded, PngName("step", step_number))
             /\ \A i \in 1..Len(recorded) : recorded[i].id < step_number]_vars
    /\ [](\A i, j \in 1..Len(recorded) : i < j => recorded[i].id < recorded[j].id)
    /\ []((pc = "done" /\ record) =>
            /\ step_number = Len(Flatten(script))
            /\ recorded = StepNames(Len(Flatten(script)))
            /\ lines = 0 => nfiles = Len(Flatten(script)))

\* a recorded run of a script of two steps, a Wait and then two commands,
\* returned success: the files are 1.png, 2.png, 3.png and the second step's
\* commands were numbered 2 and 3
C26_Witness ==
    /\ pc = "done"
    /\ record /\ ~debug
    /\ Len(script) = 2
    /\ Len(script[1]) = 1 /\ script[1][1].op = "Wait"
    /\ Len(script[2]) = 2
    /\ step_number = 3
    /\ recorded = <<PngName("step", 1), PngName("step", 2), PngName("step", 3)>>
    /\ nfiles = 3

\* this step is a capture ending because its update request could not be sent
RequestFails == ssPc = "request" /\ ssPc' \notin {"request", "poll"}

\* this step hands the error of a capture to boot_command
CaptureErrs == ssPc = "err" /\ ssPc' # "err"

\* C23: when a key event cannot be sent or a capture fails on the transport,
\* boot_command returns the error: the step after the failure leaves
\* boot_command returned with an error, and nothing happens after that, no
\* key event, capture, prompt, file or command.
C23_TransportErrorReturned ==
    /\ [][RequestFails => pc' = "err"]_vars
    /\ [][CaptureErrs => pc' = "err"]_vars
    /\ [][(pc = "exec" /\ Cur.op \in SpecialOps \cup {"Type"} /\ pc' # "exec") =>
             pc' \in {"end", "err"}]_vars
    /\ [][pc = "err" => vars' = vars]_vars

(***************************************************************************)
(* Claims about the rounds of the screen waits.                            *)
(***************************************************************************)
\* the control thread is inside the loop of a screen wait
InScreenWait ==
    \/ pc \in {"ws_shot", "wsr_shot"}
    \/ pc = "exec" /\ Cur.op \in {"WaitScreen", "WaitScreenRect"}

\* screenshot() has returned a capture to a screen wait
Returned == ssPc = "ok" /\ pc \in {"ws_shot", "wsr_shot"}

\* the capture returned to the screen wait hashes to the wait's target: the
\* frame for WaitScreen, the region of the rect for WaitScreenRect
OnTarget ==
    IF pc = "ws_shot" THEN Digest(shot.data) = Cur.hash
    ELSE LET t == Trim(shot, Cur.rect)
         IN t.tag = "ok" /\ Digest(t.shot.data) = Cur.hash

\* nothing fails: no key event, capture, trim or file
NoFailure == [](pc \notin {"err", "panic"} /\ ssPc # "err")

\* every call of screenshot() returns a capture
EveryCaptureReturns == [](ssPc \in {"drain", "request", "poll"} => <>(ssPc = "ok"))

\* no capture of a screen wait ever hashes to the target
NeverOnTarget == [](Returned => ~OnTarget)

\* from some point on every capture of a screen wait hashes to the target
StablyOnTarget == <>[](Returned => OnTarget)

\* C21: a screen wait has no bound on its rounds. In a run where no capture
\* hashes to the target and nothing fails, a screen wait once begun is never
\* left: no later command is taken and boot_command does not return; when
\* moreover every capture returns, the wait takes captures again and again
\* without end. A screen wait is left only towards its settle delay, on a
\* capture that hashes to the target, or by an error.
C21_WaitUnbounded ==
    /\ (NeverOnTarget /\ NoFailure) => [](InScreenWait => []InScreenWait)
    /\ (NeverOnTarget /\ NoFailure /\ EveryCaptureReturns) =>
          [](InScreenWait => []<>Returned)
    /\ [][(InScreenWait /\ ~InScreenWait') =>
             \/ pc' \in {"err", "panic"}
             \/ /\ pc' \in {"ws_settle", "wsr_settle"}
                /\ Returned
                /\ OnTarget]_vars

\* WaitScreen on a target no frame hashes to: a round missed, the round after
\* it missed as well, and the loop is at its head again
C21_Witness ==
    /\ pc = "exec"
    /\ Cur = WaitScreen(H_none)
    /\ Len(log) = 3
    /\ log[1].k = "capture" /\ log[2].k = "sleep" /\ log[3].k = "capture"
    /\ log[1].x # H_none /\ log[3].x # H_none
    /\ step_number = 3

\* C24: in a run without an operator where nothing fails, every capture
\* returns and from some point on every capture of a screen wait hashes to
\* its target, every screen wait that is begun completes, and boot_command
\* returns success.
C24_WaitLiveness ==
    (NoFailure /\ EveryCaptureReturns /\ StablyOnTarget) =>
        /\ [](InScreenWait => <>(pc = "end"))
        /\ <>(pc = "done")

\* a WaitScreen completed in its second round: the capture of the first
\* round missed the target, that of the second hashed to it
C24_Witness ==
    /\ pc = "end"
    /\ ~debug
    /\ Cur = WaitScreen(H_full)
    /\ Len(log) = 4
    /\ log[1].k = "capture" /\ log[1].x # H_full
    /\ log[3].k = "capture" /\ log[3].x = H_full
    /\ log[4] = EvSleep(SettleMs)

=============================================================================
